---- MODULE Spec2Model ----
(***************************************************************************)
(* A model of the safe-area polygon editor of static/script.js: the        *)
(* module-level editor state, the handlers that change it, and the         *)
(* asynchronous operations (fetches, image decodes, timers) whose          *)
(* completions the browser's event loop may deliver in any order.          *)
(*                                                                         *)
(* Every handler runs to completion (the event loop is single-threaded),   *)
(* so one handler, or one continuation after an await, is one action.      *)
(*                                                                         *)
(* A normalized coordinate is the Number x / originalImageWidth, the       *)
(* double nearest that ratio; it is kept as the integer numerator of the   *)
(* ratio over the common denominator NormDen.  The result of 0 / 0 (a      *)
(* click against an undecoded image) is NaN.  The distance test of a click *)
(* is computed as the program computes it, in IEEE 754 double arithmetic.  *)
(*                                                                         *)
(* The backend is the environment: a get_safe_areas response carries any   *)
(* of the sets in Bodies.  SpecStore is the page with a backend that       *)
(* stores what set_safe_areas receives and answers get_safe_areas with it. *)
(*                                                                         *)
(* Around the editor is the camera page: the stream image and its refresh  *)
(* interval, the camera list and the polls of camera state and connection  *)
(* status.  SpecStream and SpecPage are the page with the editor closed.   *)
(***************************************************************************)
EXTENDS Integers, Sequences, FiniteSets, Bags, TLC

VARIABLES
    isConnected,          \* let isConnected
    currentCameraId,      \* let currentCameraId
    safeAreas,            \* let safeAreas: sequence of polygons
    currentPolygon,       \* let currentPolygon: sequence of points
    isEditing,            \* let isEditing
    popupShown,           \* safeAreaPopup.style.display is "block"
    canvasContext,        \* let canvasContext is non-null
    listeners,            \* the three canvas listeners are attached
    backgroundImage,      \* let backgroundImage: NoImage or an Image object
    originalImageWidth,   \* let originalImageWidth
    originalImageHeight,  \* let originalImageHeight
    canvasScale,          \* let canvasScale, the rational <<num, den>>
    saveStatus,           \* saveStatus.className
    alertMsg,             \* the alert() or confirm() of the last handler, or "none"
    defaultPrevented,     \* the last handler called event.preventDefault()
    polygonToDraw,        \* the polygon the canvas shows dashed (drawSafeAreas)
    pendingLoads,         \* bag of get_safe_areas requests in flight
    pendingImages,        \* bag of snapshot Images still decoding
    pendingSaves,         \* bag of set_safe_areas requests in flight
    pendingCommands,      \* bag of POST /command requests in flight
    closeTimers,          \* pending setTimeout(hideSafeAreaPopup, 1000)
    store,                \* the JSON document a storing backend holds per camera
    streamRefreshInterval, \* let streamRefreshInterval: NoInterval or an interval id
    liveIntervals,        \* ids of the refreshStreamImage intervals set and not cleared
    streamRequest,        \* what the last streamImg.src started and has not fired
    errorCount,           \* let errorCount
    toggleRecord,         \* toggleRecord.checked
    pendingLists,         \* a camera_list request is in flight
    pendingStates,        \* cameras with a camera_state request in flight
    pendingChecks         \* cameras with a camera_status request in flight

vars == <<isConnected, currentCameraId, safeAreas, currentPolygon, isEditing,
          popupShown, canvasContext, listeners, backgroundImage,
          originalImageWidth, originalImageHeight, canvasScale, saveStatus,
          alertMsg, defaultPrevented, polygonToDraw, pendingLoads,
          pendingImages, pendingSaves, pendingCommands, closeTimers, store,
          streamRefreshInterval, liveIntervals, streamRequest, errorCount,
          toggleRecord, pendingLists, pendingStates, pendingChecks>>

(***************************************************************************)
(* Bounds of the model.                                                    *)
(***************************************************************************)
MaxVertices == 6   \* vertices in safeAreas and currentPolygon when one is added
MaxPending == 2    \* asynchronous operations in flight when a user acts

(***************************************************************************)
(* Program constants.                                                      *)
(***************************************************************************)
maxWidth == 800
maxHeight == 600
CloseThresholdInv == 20    \* the closing threshold 0.05 is 1 / 20
MAX_ERRORS == 10

\* common denominator of the normalized coordinates
NormDen == 6 * 800
NaN == 0 - 1

CameraIds == {"camera_000", "cam_1"}
\* natural sizes a decoded snapshot may have
ImageSizes == {<<1600, 1200>>, <<1200, 1200>>, <<800, 480>>}
\* pointer positions relative to the canvas rectangle, in CSS pixels
ClickPoints == {<<80, 60>>, <<400, 60>>, <<119, 60>>, <<120, 60>>}

NoImage == [status |-> "none", width |-> 0, height |-> 0]

\* streamRefreshInterval is null
NoInterval == 0

\* the sets a get_safe_areas response may carry
StoredTriangle == << <<480, 480>>, <<2400, 480>>, <<1440, 1920>> >>
Bodies == { << >>, <<StoredTriangle>> }

InFlight ==
    BagCardinality(pendingLoads) + BagCardinality(pendingImages)
        + BagCardinality(pendingSaves) + BagCardinality(pendingCommands)
        + closeTimers

Init ==
    /\ isConnected = FALSE
    /\ currentCameraId = "camera_000"
    /\ safeAreas = << >>
    /\ currentPolygon = << >>
    /\ isEditing = FALSE
    /\ popupShown = FALSE
    /\ canvasContext = FALSE
    /\ listeners = FALSE
    /\ backgroundImage = NoImage
    /\ originalImageWidth = 0
    /\ originalImageHeight = 0
    /\ canvasScale = <<1, 1>>
    /\ saveStatus = ""
    /\ alertMsg = "none"
    /\ defaultPrevented = FALSE
    /\ polygonToDraw = << >>
    /\ pendingLoads = SetToBag({[cam |-> "camera_000", purpose |-> "select"]})
    /\ pendingImages = EmptyBag
    /\ pendingSaves = EmptyBag
    /\ pendingCommands = EmptyBag
    /\ closeTimers = 0
    /\ store = [c \in CameraIds |-> << >>]
    /\ streamRefreshInterval = 1
    /\ liveIntervals = {1}
    /\ streamRequest = "frame"
    /\ errorCount = 0
    /\ toggleRecord = FALSE
    /\ pendingLists = TRUE
    /\ pendingStates = {"camera_000"}
    /\ pendingChecks = {"camera_000"}

(***************************************************************************)
(* Geometry.                                                               *)
(***************************************************************************)
\* the scale that fits the width, whatever the height
ScaleFor_WidthOnly(w, h) == <<maxWidth, w>>

\* Math.min(maxWidth / w, maxHeight / h) as <<num, den>>; n / 0 is Infinity
ScaleFor(w, h) ==
    IF maxWidth * h <= maxHeight * w THEN <<maxWidth, w>> ELSE <<maxHeight, h>>

\* Math.floor(c / canvasScale); c / Infinity is 0
getCanvasCoordinates(c) == (c * canvasScale[2]) \div canvasScale[1]

\* x / dim for the x getCanvasCoordinates yields; 0 / 0 is NaN
Normalize(x, dim) == IF dim = 0 THEN NaN ELSE (x * NormDen) \div dim

NormalizedPoint(cx, cy) ==
    << Normalize(getCanvasCoordinates(cx), originalImageWidth),
       Normalize(getCanvasCoordinates(cy), originalImageHeight) >>

HasNaN(p) == p[1] = NaN \/ p[2] = NaN

(***************************************************************************)
(* Natural numbers of any size, as sequences of limbs in base 2^LimbBits,  *)
(* least significant first, with no leading zero limb.                     *)
(***************************************************************************)
LimbBits == 14
Base == 2^LimbBits

RECURSIVE BigOf(_)
BigOf(n) == IF n = 0 THEN << >> ELSE <<n % Base>> \o BigOf(n \div Base)

RECURSIVE Trim(_)
Trim(a) ==
    IF a # << >> /\ a[Len(a)] = 0 THEN Trim(SubSeq(a, 1, Len(a) - 1)) ELSE a

Limb(a, i) == IF i <= Len(a) THEN a[i] ELSE 0

RECURSIVE AddFrom(_, _, _, _)
AddFrom(a, b, i, carry) ==
    IF i > Len(a) /\ i > Len(b)
    THEN IF carry = 0 THEN << >> ELSE <<carry>>
    ELSE LET s == Limb(a, i) + Limb(b, i) + carry IN
         <<s % Base>> \o AddFrom(a, b, i + 1, s \div Base)

BigAdd(a, b) == AddFrom(a, b, 1, 0)

RECURSIVE SubFrom(_, _, _, _)
SubFrom(a, b, i, borrow) ==
    IF i > Len(a) THEN << >>
    ELSE LET s == Limb(a, i) - Limb(b, i) - borrow IN
         <<s % Base>> \o SubFrom(a, b, i + 1, IF s < 0 THEN 1 ELSE 0)

\* a - b, for a >= b
BigSub(a, b) == Trim(SubFrom(a, b, 1, 0))

RECURSIVE LessFrom(_, _, _)
LessFrom(a, b, i) ==
    IF i = 0 THEN FALSE
    ELSE IF a[i] # b[i] THEN a[i] < b[i] ELSE LessFrom(a, b, i - 1)

BigLess(a, b) ==
    IF Len(a) # Len(b) THEN Len(a) < Len(b) ELSE LessFrom(a, b, Len(a))

RECURSIVE ScaleFrom(_, _, _, _)
ScaleFrom(a, k, i, carry) ==
    IF i > Len(a)
    THEN IF carry = 0 THEN << >> ELSE <<carry>>
    ELSE LET s == a[i] * k + carry IN
         <<s % Base>> \o ScaleFrom(a, k, i + 1, s \div Base)

\* a * k, for 0 < k <= Base
BigScale(a, k) == ScaleFrom(a, k, 1, 0)

RECURSIVE MulFrom(_, _, _)
MulFrom(a, b, i) ==
    IF i > Len(b) THEN << >>
    ELSE BigAdd(BigScale(a, b[i]), <<0>> \o MulFrom(a, b, i + 1))

BigMul(a, b) == Trim(MulFrom(a, b, 1))

RECURSIVE DivFrom(_, _, _, _)
DivFrom(a, k, i, rem) ==
    IF i = 0 THEN << >>
    ELSE LET cur == rem * Base + a[i] IN
         DivFrom(a, k, i - 1, cur % k) \o <<cur \div k>>

\* floor(a / k), for 0 < k <= Base
BigDiv(a, k) == Trim(DivFrom(a, k, Len(a), 0))

RECURSIVE Zeros(_)
Zeros(n) == IF n = 0 THEN << >> ELSE <<0>> \o Zeros(n - 1)

ShiftLeft(a, bits) ==
    IF a = << >> THEN << >>
    ELSE Zeros(bits \div LimbBits) \o BigScale(a, 2^(bits % LimbBits))

ShiftRight(a, bits) ==
    IF Len(a) <= bits \div LimbBits THEN << >>
    ELSE BigDiv(SubSeq(a, bits \div LimbBits + 1, Len(a)), 2^(bits % LimbBits))

RECURSIVE Bits(_)
Bits(n) == IF n = 0 THEN 0 ELSE 1 + Bits(n \div 2)

BitLength(a) ==
    IF a = << >> THEN 0 ELSE LimbBits * (Len(a) - 1) + Bits(a[Len(a)])

(***************************************************************************)
(* Numbers: the non-negative finite doubles m * 2^e, with m of exactly     *)
(* Precision bits, and zero.  Every operation rounds its exact result to   *)
(* the nearest double, ties to the even significand, as IEEE 754 does.     *)
(***************************************************************************)
Precision == 53

Zero == [m |-> << >>, e |-> 0]

\* the double nearest n * 2^e, or nearest a value strictly between n * 2^e
\* and (n + 1) * 2^e when inexact
Round(n, e, inexact) ==
    IF n = << >> THEN Zero
    ELSE LET len == BitLength(n) IN
         IF len <= Precision
         THEN [m |-> ShiftLeft(n, Precision - len), e |-> e - (Precision - len)]
         ELSE LET k == len - Precision
                  q == ShiftRight(n, k)
                  r == BigSub(n, ShiftLeft(q, k))
                  half == ShiftLeft(<<1>>, k - 1)
                  up == \/ BigLess(half, r)
                        \/ r = half /\ (inexact \/ q[1] % 2 = 1)
                  q1 == IF up THEN BigAdd(q, <<1>>) ELSE q
              IN IF BitLength(q1) > Precision
                 THEN [m |-> ShiftRight(q1, 1), e |-> e + k + 1]
                 ELSE [m |-> q1, e |-> e + k]

\* num / den for integers num >= 0 and 0 < den <= Base: the quotient is
\* taken to 70 binary places, more than a double holds
Quotient(num, den) ==
    LET n == ShiftLeft(BigOf(num), 70)
        q == BigDiv(n, den)
    IN Round(q, 0 - 70, BigMul(q, BigOf(den)) # n)

Aligned(a, b) ==
    LET e == IF a.e < b.e THEN a.e ELSE b.e IN
    [x |-> ShiftLeft(a.m, a.e - e), y |-> ShiftLeft(b.m, b.e - e), e |-> e]

\* | a - b |: the sign of a difference is lost when it is squared
Difference(a, b) ==
    IF a.m = << >> THEN b
    ELSE IF b.m = << >> THEN a
    ELSE LET al == Aligned(a, b) IN
         IF BigLess(al.x, al.y) THEN Round(BigSub(al.y, al.x), al.e, FALSE)
         ELSE Round(BigSub(al.x, al.y), al.e, FALSE)

Sum(a, b) ==
    IF a.m = << >> THEN b
    ELSE IF b.m = << >> THEN a
    ELSE LET al == Aligned(a, b) IN Round(BigAdd(al.x, al.y), al.e, FALSE)

Product(a, b) ==
    IF a.m = << >> \/ b.m = << >> THEN Zero
    ELSE Round(BigMul(a.m, b.m), a.e + b.e, FALSE)

\* Math.sqrt(s) < c, for c not a power of two: the root rounds below c
\* exactly when s is below the square of the midpoint of c and the double
\* before it, or is that square and the tie goes to the double before c
SqrtBelow(s, c) ==
    LET mid == BigSub(BigScale(c.m, 2), <<1>>)
        sq == [m |-> BigMul(mid, mid), e |-> 2 * (c.e - 1)]
    IN IF s.m = << >> THEN TRUE
       ELSE LET al == Aligned(s, sq) IN
            \/ BigLess(al.x, al.y)
            \/ al.x = al.y /\ c.m[1] % 2 = 1

\* the Number a normalized coordinate holds
Coordinate(n) == Quotient(n, NormDen)

\* Math.sqrt(Math.pow(px - qx, 2) + Math.pow(py - qy, 2)) < 0.05
DistanceBelowThreshold(p, q) ==
    LET dx == Difference(Coordinate(p[1]), Coordinate(q[1]))
        dy == Difference(Coordinate(p[2]), Coordinate(q[2]))
    IN SqrtBelow(Sum(Product(dx, dx), Product(dy, dy)),
                 Quotient(1, CloseThresholdInv))

\* the normalized points of the model: what its clicks yield on its
\* snapshots, and what its stored sets hold
ModelPoints ==
    {<<Normalize((c[1] * ScaleFor(s[1], s[2])[2]) \div ScaleFor(s[1], s[2])[1], s[1]),
       Normalize((c[2] * ScaleFor(s[1], s[2])[2]) \div ScaleFor(s[1], s[2])[1], s[2])>> :
          c \in ClickPoints, s \in ImageSizes}
    \cup UNION {UNION {{body[k][i] : i \in DOMAIN body[k]} : k \in DOMAIN body} :
                   body \in Bodies}

\* DistanceBelowThreshold for the points of the model; merged with the empty
\* function, the table is an explicit function that TLC computes once
CloseTable ==
    [pq \in ModelPoints \X ModelPoints |-> DistanceBelowThreshold(pq[1], pq[2])]
        @@ << >>

\* the distance test of a click; every comparison with NaN is false
WithinCloseDistance(p, q) ==
    /\ ~HasNaN(p)
    /\ ~HasNaN(q)
    /\ IF <<p, q>> \in DOMAIN CloseTable
       THEN CloseTable[<<p, q>>]
       ELSE DistanceBelowThreshold(p, q)

(***************************************************************************)
(* Groups of variables a handler leaves alone.                             *)
(***************************************************************************)
cameraVars == <<isConnected, currentCameraId>>
polygonVars == <<safeAreas, currentPolygon>>
sessionVars == <<isEditing, popupShown, canvasContext, listeners>>
canvasVars == <<backgroundImage, originalImageWidth, originalImageHeight, canvasScale>>
requestVars == <<pendingLoads, pendingImages, pendingSaves, pendingCommands, closeTimers>>
streamVars == <<streamRefreshInterval, liveIntervals, streamRequest, errorCount>>
pollVars == <<pendingLists, pendingStates, pendingChecks>>
pageVars == <<streamVars, toggleRecord, pollVars>>

editorVars == <<polygonVars, sessionVars, canvasVars, saveStatus, polygonToDraw,
                requestVars, store>>

(***************************************************************************)
(* The stream.  An interval is live from its setInterval to its            *)
(* clearInterval; setInterval returns an id no live interval has.  Setting *)
(* streamImg.src starts a request and drops the one before it:             *)
(* streamRequest is "frame" while a stream.jpg request has fired neither   *)
(* load nor error, "empty" while the error event of src = '' has not       *)
(* fired, and "none" otherwise.                                            *)
(***************************************************************************)
setInterval(live) == CHOOSE id \in 1..(Cardinality(live) + 1) : id \notin live

stopStream ==
    /\ liveIntervals' = liveIntervals \ {streamRefreshInterval}
    /\ streamRefreshInterval' = NoInterval
    /\ streamRequest' = "empty"

\* startStream without its stopStream
startStream_NoStop(cameraId) ==
    /\ pendingChecks' = pendingChecks \cup {cameraId}
    /\ streamRequest' = "frame"
    /\ streamRefreshInterval' = setInterval(liveIntervals)
    /\ liveIntervals' = liveIntervals \cup {setInterval(liveIntervals)}

\* startStream() while currentCameraId is cameraId: stopStream, then
\* checkCameraConnection, refreshStreamImage and setInterval
startStream(cameraId) ==
    LET live == liveIntervals \ {streamRefreshInterval} IN
    /\ pendingChecks' = pendingChecks \cup {cameraId}
    /\ streamRequest' = "frame"
    /\ streamRefreshInterval' = setInterval(live)
    /\ liveIntervals' = live \cup {setInterval(live)}

\* isConnected after updateConnectionStatus(cameraId, connected) while the
\* current camera is current
isConnectedAfter(cameraId, current, connected) ==
    IF cameraId = current THEN connected ELSE isConnected

(***************************************************************************)
(* refreshStreamImage, as interval id calls it.                            *)
(***************************************************************************)
refreshStreamImage(id) ==
    /\ id \in liveIntervals
    /\ streamRequest' = "frame"
    /\ alertMsg' = "none"
    /\ defaultPrevented' = FALSE
    /\ UNCHANGED <<cameraVars, editorVars, streamRefreshInterval, liveIntervals,
                   errorCount, toggleRecord, pollVars>>

streamImgOnLoad ==
    /\ streamRequest = "frame"
    /\ streamRequest' = "none"
    /\ errorCount' = 0
    /\ pendingChecks' = pendingChecks \cup {currentCameraId}
    /\ alertMsg' = "none"
    /\ defaultPrevented' = FALSE
    /\ UNCHANGED <<cameraVars, editorVars, streamRefreshInterval, liveIntervals,
                   toggleRecord, pendingLists, pendingStates>>

\* streamImg.onerror resetting the counter only above MAX_ERRORS
streamImgOnError_ResetsLate ==
    /\ streamRequest \in {"frame", "empty"}
    /\ streamRequest' = "none"
    /\ isConnected' = FALSE
    /\ IF errorCount + 1 > MAX_ERRORS
       THEN errorCount' = 0 /\ pendingLists' = TRUE
       ELSE errorCount' = errorCount + 1 /\ UNCHANGED pendingLists
    /\ alertMsg' = "none"
    /\ defaultPrevented' = FALSE
    /\ UNCHANGED <<currentCameraId, editorVars, streamRefreshInterval,
                   liveIntervals, toggleRecord, pendingStates, pendingChecks>>

streamImgOnError ==
    /\ streamRequest \in {"frame", "empty"}
    /\ streamRequest' = "none"
    /\ isConnected' = FALSE
    /\ IF errorCount + 1 >= MAX_ERRORS
       THEN errorCount' = 0 /\ pendingLists' = TRUE
       ELSE errorCount' = errorCount + 1 /\ UNCHANGED pendingLists
    /\ alertMsg' = "none"
    /\ defaultPrevented' = FALSE
    /\ UNCHANGED <<currentCameraId, editorVars, streamRefreshInterval,
                   liveIntervals, toggleRecord, pendingStates, pendingChecks>>

(***************************************************************************)
(* The polls.  Requests for the same camera are not counted: pendingStates *)
(* and pendingChecks hold the cameras with at least one request in flight, *)
(* and when a response arrives another request for its camera may remain.  *)
(* availableCameras is the last list received; a handler that reads it     *)
(* takes what it reads as an input.                                        *)
(***************************************************************************)
\* the flags of a camera_state response: record and _connected (here
\* connected), each a boolean or absent
Flags == UNION {[fields -> BOOLEAN] : fields \in SUBSET {"record", "connected"}}

\* the controls after updateUIControls(flags), toggleRecord standing for the
\* six the function writes in the same way
updateUIControls(flags) ==
    IF "record" \in DOMAIN flags THEN flags.record ELSE toggleRecord

FetchOutcomes == {"ok", "http_error", "exception"}

\* setInterval(loadCameraList, 30000), and the loadCameraList() of a manual
\* refresh, an approval or a forget
cameraListTimerFires ==
    /\ pendingLists' = TRUE
    /\ alertMsg' = "none"
    /\ defaultPrevented' = FALSE
    /\ UNCHANGED <<cameraVars, editorVars, streamVars, toggleRecord,
                   pendingStates, pendingChecks>>

\* setInterval(() => fetchCameraState(currentCameraId), 10000), and the
\* timer of the same call that a successful command sets
cameraStateTimerFires ==
    /\ pendingStates' = pendingStates \cup {currentCameraId}
    /\ alertMsg' = "none"
    /\ defaultPrevented' = FALSE
    /\ UNCHANGED <<cameraVars, editorVars, streamVars, toggleRecord,
                   pendingLists, pendingChecks>>

\* the 5000 ms interval: checkCameraConnection for the cameras of
\* availableCameras and for the current one
cameraStatusTimerFires(available) ==
    /\ pendingChecks' = pendingChecks \cup available \cup {currentCameraId}
    /\ alertMsg' = "none"
    /\ defaultPrevented' = FALSE
    /\ UNCHANGED <<cameraVars, editorVars, streamVars, toggleRecord,
                   pendingLists, pendingStates>>

\* fetchCameraState(cameraId) after its fetch settles
fetchCameraStateSettles(cameraId, outcome, flags) ==
    /\ cameraId \in pendingStates
    /\ pendingStates' \in {pendingStates, pendingStates \ {cameraId}}
    /\ toggleRecord' = IF outcome = "ok" THEN updateUIControls(flags) ELSE toggleRecord
    /\ isConnected' =
          CASE outcome = "ok" /\ "connected" \in DOMAIN flags ->
                  isConnectedAfter(cameraId, currentCameraId, flags.connected)
            [] outcome = "exception" ->
                  isConnectedAfter(cameraId, currentCameraId, FALSE)
            [] OTHER -> isConnected
    /\ alertMsg' = "none"
    /\ defaultPrevented' = FALSE
    /\ UNCHANGED <<currentCameraId, editorVars, streamVars, pendingLists,
                   pendingChecks>>

\* checkCameraConnection(cameraId) after its fetch settles
checkCameraConnectionSettles(cameraId, outcome, connected) ==
    /\ cameraId \in pendingChecks
    /\ pendingChecks' \in {pendingChecks, pendingChecks \ {cameraId}}
    /\ isConnected' =
          isConnectedAfter(cameraId, currentCameraId, outcome = "ok" /\ connected)
    /\ alertMsg' = "none"
    /\ defaultPrevented' = FALSE
    /\ UNCHANGED <<currentCameraId, editorVars, streamVars, toggleRecord,
                   pendingLists, pendingStates>>

(***************************************************************************)
(* Connection status: updateConnectionStatus(currentCameraId, connected),  *)
(* called with the answer of a camera_status or camera_state poll.         *)
(***************************************************************************)
updateConnectionStatus(connected) ==
    /\ isConnected' = connected
    /\ alertMsg' = "none"
    /\ defaultPrevented' = FALSE
    /\ UNCHANGED store
    /\ UNCHANGED pageVars
    /\ UNCHANGED polygonToDraw
    /\ UNCHANGED <<currentCameraId, polygonVars, sessionVars, canvasVars,
                   saveStatus, requestVars>>

(***************************************************************************)
(* cameraSelect.onchange: the user selects camera c, whose list entry says *)
(* online; the handler ends by loading that camera's safe areas.  (The     *)
(* early return is for a disabled option, which a browser never selects.)  *)
(***************************************************************************)
cameraSelectOnChange(c, online) ==
    /\ currentCameraId' = c
    /\ isConnected' = online
    /\ startStream(c)
    /\ pendingStates' = pendingStates \cup {c}
    /\ pendingLoads' = pendingLoads (+) SetToBag({[cam |-> c, purpose |-> "select"]})
    /\ alertMsg' = "none"
    /\ defaultPrevented' = FALSE
    /\ UNCHANGED store
    /\ UNCHANGED <<errorCount, toggleRecord, pendingLists>>
    /\ UNCHANGED polygonToDraw
    /\ UNCHANGED <<polygonVars, sessionVars, canvasVars, saveStatus,
                   pendingImages, pendingSaves, pendingCommands, closeTimers>>

(***************************************************************************)
(* The camera list: a sequence of entries with distinct ids, none of them  *)
(* the placeholder.                                                        *)
(***************************************************************************)
ListedIds == {"cam_1", "cam_2"}

Entry(id, registered, online) ==
    [camera_id |-> id, registered |-> registered, online |-> online]

\* the lists a camera_list response may carry: none, one or two cameras,
\* registered or pending, a pending one before a registered one
CameraLists ==
    { << >>,
      <<Entry("cam_1", TRUE, TRUE)>>,
      <<Entry("cam_1", TRUE, FALSE)>>,
      <<Entry("cam_2", FALSE, TRUE)>>,
      <<Entry("cam_2", FALSE, TRUE), Entry("cam_1", TRUE, TRUE)>>,
      <<Entry("cam_2", TRUE, FALSE), Entry("cam_1", TRUE, TRUE)>>,
      <<Entry("cam_1", FALSE, FALSE), Entry("cam_2", FALSE, TRUE)>> }

IdsOf(cameras) == {cameras[i].camera_id : i \in 1..Len(cameras)}

\* cameras.find(cam => cam.camera_id === id)
Find(cameras, id) ==
    cameras[CHOOSE i \in 1..Len(cameras) :
                /\ cameras[i].camera_id = id
                /\ \A j \in 1..(i - 1) : cameras[j].camera_id # id]

IsRegistered(camera) == camera.registered
IsUnregistered(camera) == ~camera.registered

\* selectedCamera of updateCameraSelect, for a list that is not empty
selectedCamera(cameras, currentValue) ==
    IF currentValue \in IdsOf(cameras) THEN Find(cameras, currentValue)
    ELSE IF SelectSeq(cameras, IsRegistered) # << >>
         THEN SelectSeq(cameras, IsRegistered)[1]
         ELSE SelectSeq(cameras, IsUnregistered)[1]

(***************************************************************************)
(* updateCameraSelect(cameras).  The select's value is the current camera: *)
(* every handler that assigns one assigns the other.  The camera_state     *)
(* request of loadCameraList that follows the call is for the same camera  *)
(* as the one the function makes.                                          *)
(***************************************************************************)
updateCameraSelect(cameras) ==
    IF cameras = << >>
    THEN /\ UNCHANGED <<isConnected, pendingStates, pendingChecks>>
         /\ IF currentCameraId # "camera_000"
            THEN /\ currentCameraId' = "camera_000"
                 /\ stopStream
            ELSE UNCHANGED <<currentCameraId, streamRefreshInterval,
                             liveIntervals, streamRequest>>
    ELSE LET selected == selectedCamera(cameras, currentCameraId) IN
         /\ currentCameraId' = selected.camera_id
         /\ isConnected' = selected.online
         /\ pendingStates' = pendingStates \cup {selected.camera_id}
         /\ IF currentCameraId # selected.camera_id
            THEN startStream(selected.camera_id)
            ELSE UNCHANGED <<streamRefreshInterval, liveIntervals, streamRequest,
                             pendingChecks>>

(***************************************************************************)
(* loadCameraList after its fetch settles.                                 *)
(***************************************************************************)
loadCameraListSettles(outcome, cameras) ==
    /\ pendingLists
    /\ pendingLists' \in BOOLEAN
    /\ IF outcome = "ok"
       THEN updateCameraSelect(cameras)
       ELSE UNCHANGED <<cameraVars, streamRefreshInterval, liveIntervals,
                        streamRequest, pendingStates, pendingChecks>>
    /\ alertMsg' = "none"
    /\ defaultPrevented' = FALSE
    /\ UNCHANGED <<editorVars, errorCount, toggleRecord>>

(***************************************************************************)
(* forgetCamera for the current camera, after its getAvailableCameras      *)
(* returned cameras.                                                       *)
(***************************************************************************)
forgetCameraResumes(cameras) ==
    /\ IF Len(cameras) > 0
       THEN /\ currentCameraId' = cameras[1].camera_id
            /\ startStream(cameras[1].camera_id)
            /\ pendingStates' = pendingStates \cup {cameras[1].camera_id}
       ELSE /\ currentCameraId' = "camera_000"
            /\ UNCHANGED <<streamRefreshInterval, liveIntervals, streamRequest,
                           pendingStates, pendingChecks>>
    /\ alertMsg' = "none"
    /\ defaultPrevented' = FALSE
    /\ UNCHANGED <<isConnected, editorVars, errorCount, toggleRecord, pendingLists>>

(***************************************************************************)
(* The approval of camera c, from the return of its loadCameraList to the  *)
(* await of checkCameraConnection.                                         *)
(***************************************************************************)
approveCameraResumes(c) ==
    /\ currentCameraId' = c
    /\ pendingChecks' = pendingChecks \cup {c}
    /\ alertMsg' = "none"
    /\ defaultPrevented' = FALSE
    /\ UNCHANGED <<isConnected, editorVars, streamVars, toggleRecord,
                   pendingLists, pendingStates>>

(***************************************************************************)
(* The startStream() that ends a manual refresh and an approval, after the *)
(* last of their awaits.                                                   *)
(***************************************************************************)
refreshCamerasBtnResumes ==
    /\ startStream(currentCameraId)
    /\ alertMsg' = "none"
    /\ defaultPrevented' = FALSE
    /\ UNCHANGED <<cameraVars, editorVars, errorCount, toggleRecord,
                   pendingLists, pendingStates>>

\* showSafeAreaEditor without its connection check
showSafeAreaEditor_NoConnectionCheck ==
    /\ pendingLoads' = pendingLoads (+)
          SetToBag({[cam |-> currentCameraId, purpose |-> "open"]})
    /\ alertMsg' = IF isConnected THEN "none" ELSE "disconnected"
    /\ defaultPrevented' = FALSE
    /\ UNCHANGED store
    /\ UNCHANGED pageVars
    /\ UNCHANGED polygonToDraw
    /\ UNCHANGED <<cameraVars, polygonVars, sessionVars, canvasVars,
                   saveStatus, pendingImages, pendingSaves,
                   pendingCommands, closeTimers>>

(***************************************************************************)
(* showSafeAreaEditor, up to its await.                                    *)
(***************************************************************************)
showSafeAreaEditor ==
    IF ~isConnected
    THEN /\ alertMsg' = "disconnected"
         /\ defaultPrevented' = FALSE
         /\ UNCHANGED store
         /\ UNCHANGED pageVars
         /\ UNCHANGED polygonToDraw
         /\ UNCHANGED <<cameraVars, polygonVars, sessionVars, canvasVars,
                        saveStatus, requestVars>>
    ELSE /\ pendingLoads' = pendingLoads (+)
               SetToBag({[cam |-> currentCameraId, purpose |-> "open"]})
         /\ alertMsg' = "none"
         /\ defaultPrevented' = FALSE
         /\ UNCHANGED store
         /\ UNCHANGED pageVars
         /\ UNCHANGED polygonToDraw
         /\ UNCHANGED <<cameraVars, polygonVars, sessionVars, canvasVars,
                        saveStatus, pendingImages, pendingSaves,
                        pendingCommands, closeTimers>>

(***************************************************************************)
(* loadSafeAreasForCamera after its fetch settles: the new safeAreas.      *)
(* outcome is "ok" (response.ok, and the body decodes to body),            *)
(* "http_error" (response.ok is false) or "exception" (the fetch or        *)
(* response.json() rejects).                                               *)
(***************************************************************************)
LoadOutcomes == {"ok", "http_error", "exception"}

loadSafeAreasForCamera(outcome, body) ==
    CASE outcome = "ok" -> body
      [] outcome = "http_error" -> safeAreas
      [] OTHER -> << >>

\* what a get_safe_areas request returned: the set, or nothing when it failed
Returned(outcome, body) == IF outcome = "ok" THEN body ELSE << >>

(***************************************************************************)
(* The completion of a get_safe_areas request.  For the request of an open *)
(* action, showSafeAreaEditor resumes in the same task: it creates the     *)
(* Image, installs its callbacks and sets its src from currentCameraId.    *)
(* An Image is current while the global backgroundImage refers to it.      *)
(***************************************************************************)
Superseded(images) ==
    LET olds == {[i EXCEPT !.current = FALSE] : i \in BagToSet(images)} IN
    [o \in olds |->
        (IF BagIn(o, images) THEN CopiesIn(o, images) ELSE 0)
        + (IF BagIn([o EXCEPT !.current = TRUE], images)
           THEN CopiesIn([o EXCEPT !.current = TRUE], images) ELSE 0)]

LoadSettles(req, outcome, body) ==
    /\ BagIn(req, pendingLoads)
    /\ pendingLoads' = pendingLoads (-) SetToBag({req})
    /\ safeAreas' = loadSafeAreasForCamera(outcome, body)
    /\ IF req.purpose = "open"
       THEN /\ backgroundImage' = [status |-> "loading", width |-> 0, height |-> 0]
            /\ pendingImages' = Superseded(pendingImages) (+)
                  SetToBag({[cam |-> currentCameraId, loadCam |-> req.cam,
                             returned |-> Returned(outcome, body),
                             current |-> TRUE]})
       ELSE UNCHANGED <<backgroundImage, pendingImages>>
    /\ alertMsg' = "none"
    /\ defaultPrevented' = FALSE
    /\ UNCHANGED store
    /\ UNCHANGED pageVars
    /\ UNCHANGED polygonToDraw
    /\ UNCHANGED <<cameraVars, currentPolygon, sessionVars, originalImageWidth,
                   originalImageHeight, canvasScale, saveStatus, pendingSaves,
                   pendingCommands, closeTimers>>

(***************************************************************************)
(* drawSafeAreas(tempPolygon), called last by a handler: it returns at     *)
(* once without a context or a background; drawImage draws nothing for an  *)
(* Image still loading and throws for a broken one, after the canvas was   *)
(* cleared.  The polygon drawn dashed is tempPolygon || currentPolygon;    *)
(* NoPreview is the default, null.                                         *)
(***************************************************************************)
NoPreview == << >>

drawSafeAreas(tempPolygon) ==
    polygonToDraw' =
        IF ~canvasContext' \/ backgroundImage' = NoImage THEN polygonToDraw
        ELSE IF backgroundImage'.status = "failed" THEN << >>
        ELSE IF tempPolygon # NoPreview THEN tempPolygon
        ELSE currentPolygon'

(***************************************************************************)
(* initializeCanvas reads the global backgroundImage, whatever Image the   *)
(* calling callback belongs to; img is that global's value at the call.    *)
(***************************************************************************)
initializeCanvas(img) ==
    /\ originalImageWidth' = img.width
    /\ originalImageHeight' = img.height
    /\ canvasScale' = ScaleFor(img.width, img.height)
    /\ canvasContext' = TRUE
    /\ listeners' = TRUE

\* the global backgroundImage after the decode of img ended with status st
Decoded(img, st, size) ==
    IF img.current
    THEN [status |-> st,
          width |-> IF st = "loaded" THEN size[1] ELSE 0,
          height |-> IF st = "loaded" THEN size[2] ELSE 0]
    ELSE backgroundImage

(***************************************************************************)
(* backgroundImage.onload of the Image img created by an open action.      *)
(***************************************************************************)
imageOnLoad(img, size) ==
    /\ BagIn(img, pendingImages)
    /\ pendingImages' = pendingImages (-) SetToBag({img})
    /\ backgroundImage' = Decoded(img, "loaded", size)
    /\ initializeCanvas(backgroundImage')
    /\ popupShown' = TRUE
    /\ isEditing' = TRUE
    /\ alertMsg' = "none"
    /\ defaultPrevented' = FALSE
    /\ UNCHANGED store
    /\ UNCHANGED pageVars
    /\ UNCHANGED <<cameraVars, polygonVars, saveStatus, pendingLoads,
                   pendingSaves, pendingCommands, closeTimers>>
    /\ drawSafeAreas(NoPreview)

(***************************************************************************)
(* backgroundImage.onerror of the Image img created by an open action.     *)
(***************************************************************************)
imageOnError(img) ==
    /\ BagIn(img, pendingImages)
    /\ pendingImages' = pendingImages (-) SetToBag({img})
    /\ backgroundImage' = Decoded(img, "failed", <<0, 0>>)
    /\ alertMsg' = "image_failed"
    /\ defaultPrevented' = FALSE
    /\ UNCHANGED store
    /\ UNCHANGED pageVars
    /\ UNCHANGED polygonToDraw
    /\ UNCHANGED <<cameraVars, polygonVars, sessionVars, originalImageWidth,
                   originalImageHeight, canvasScale, saveStatus, pendingLoads,
                   pendingSaves, pendingCommands, closeTimers>>

(***************************************************************************)
(* The window resize listener.                                             *)
(***************************************************************************)
windowOnResize ==
    /\ isEditing /\ backgroundImage # NoImage
    /\ initializeCanvas(backgroundImage)
    /\ alertMsg' = "none"
    /\ defaultPrevented' = FALSE
    /\ UNCHANGED store
    /\ UNCHANGED pageVars
    /\ UNCHANGED <<cameraVars, polygonVars, isEditing, popupShown,
                   backgroundImage, saveStatus, requestVars>>
    /\ drawSafeAreas(NoPreview)

(***************************************************************************)
(* Polygon drawing.  The canvas handlers run only while the listeners are  *)
(* attached; the buttons' onclick handlers are installed by the first      *)
(* initializeCanvas and the buttons are inside the popup.  For a canvas    *)
(* handler h, hCall is the function called and h the event delivered to it *)
(* by a listener.                                                          *)
(***************************************************************************)

\* finishCurrentPolygon closing whatever is in currentPolygon
finishCurrentPolygon_AnyLength ==
    IF Len(currentPolygon) >= 1
    THEN /\ safeAreas' = Append(safeAreas, currentPolygon)
         /\ currentPolygon' = << >>
    ELSE UNCHANGED polygonVars

finishCurrentPolygon ==
    IF Len(currentPolygon) >= 3
    THEN /\ safeAreas' = Append(safeAreas, currentPolygon)
         /\ currentPolygon' = << >>
    ELSE UNCHANGED polygonVars

\* finishCurrentPolygon called on its own: it redraws only when it closed
\* the polygon, and has no alert
finishCurrentPolygonCall ==
    /\ finishCurrentPolygon
    /\ alertMsg' = "none"
    /\ defaultPrevented' = FALSE
    /\ UNCHANGED store
    /\ UNCHANGED pageVars
    /\ UNCHANGED <<cameraVars, sessionVars, canvasVars, saveStatus, requestVars>>
    /\ IF Len(currentPolygon) >= 3
       THEN drawSafeAreas(NoPreview)
       ELSE UNCHANGED polygonToDraw

\* the click closes the polygon: at least 3 points and distance < 0.05
ClickCloses(p) ==
    /\ Len(currentPolygon) >= 3
    /\ WithinCloseDistance(p, currentPolygon[1])

\* handleCanvasClick pushing the closing click's point before it closes
handleCanvasClick_PushesClosingPoint(cx, cy) ==
    /\ listeners
    /\ IF ~isEditing
       THEN UNCHANGED polygonVars
       ELSE IF ClickCloses(NormalizedPoint(cx, cy))
            THEN /\ safeAreas' = Append(safeAreas,
                        Append(currentPolygon, NormalizedPoint(cx, cy)))
                 /\ currentPolygon' = << >>
            ELSE /\ currentPolygon' = Append(currentPolygon, NormalizedPoint(cx, cy))
                 /\ UNCHANGED safeAreas
    /\ alertMsg' = "none"
    /\ defaultPrevented' = FALSE
    /\ UNCHANGED store
    /\ UNCHANGED pageVars
    /\ UNCHANGED <<cameraVars, sessionVars, canvasVars, saveStatus, requestVars>>
    /\ IF isEditing THEN drawSafeAreas(NoPreview) ELSE UNCHANGED polygonToDraw

\* handleCanvasClick storing the polygon under way with every vertex it appends
handleCanvasClick_StoresOnAppend(cx, cy) ==
    /\ listeners
    /\ IF ~isEditing
       THEN UNCHANGED polygonVars
       ELSE IF ClickCloses(NormalizedPoint(cx, cy))
            THEN finishCurrentPolygon
            ELSE /\ currentPolygon' = Append(currentPolygon, NormalizedPoint(cx, cy))
                 /\ safeAreas' = Append(safeAreas, currentPolygon')
    /\ alertMsg' = "none"
    /\ defaultPrevented' = FALSE
    /\ UNCHANGED store
    /\ UNCHANGED pageVars
    /\ UNCHANGED <<cameraVars, sessionVars, canvasVars, saveStatus, requestVars>>
    /\ IF isEditing THEN drawSafeAreas(NoPreview) ELSE UNCHANGED polygonToDraw

\* handleCanvasClick without its isEditing test
handleCanvasClickCall_NoEditingCheck(cx, cy) ==
    /\ IF ClickCloses(NormalizedPoint(cx, cy))
       THEN finishCurrentPolygon
       ELSE /\ currentPolygon' = Append(currentPolygon, NormalizedPoint(cx, cy))
            /\ UNCHANGED safeAreas
    /\ alertMsg' = "none"
    /\ defaultPrevented' = FALSE
    /\ UNCHANGED store
    /\ UNCHANGED pageVars
    /\ UNCHANGED <<cameraVars, sessionVars, canvasVars, saveStatus, requestVars>>
    /\ drawSafeAreas(NoPreview)

handleCanvasClickCall(cx, cy) ==
    /\ IF ~isEditing
       THEN UNCHANGED polygonVars
       ELSE IF ClickCloses(NormalizedPoint(cx, cy))
            THEN finishCurrentPolygon
            ELSE /\ currentPolygon' = Append(currentPolygon, NormalizedPoint(cx, cy))
                 /\ UNCHANGED safeAreas
    /\ alertMsg' = "none"
    /\ defaultPrevented' = FALSE
    /\ UNCHANGED store
    /\ UNCHANGED pageVars
    /\ UNCHANGED <<cameraVars, sessionVars, canvasVars, saveStatus, requestVars>>
    /\ IF isEditing THEN drawSafeAreas(NoPreview) ELSE UNCHANGED polygonToDraw

handleCanvasClick(cx, cy) == listeners /\ handleCanvasClickCall(cx, cy)

\* handleCanvasMouseMove pushing the pointer's point to draw the preview
handleCanvasMouseMove_StoresPreview(cx, cy) ==
    /\ listeners
    /\ alertMsg' = "none"
    /\ defaultPrevented' = FALSE
    /\ UNCHANGED store
    /\ UNCHANGED pageVars
    /\ UNCHANGED <<cameraVars, safeAreas, sessionVars, canvasVars,
                   saveStatus, requestVars>>
    /\ IF ~isEditing \/ Len(currentPolygon) = 0
       THEN UNCHANGED <<currentPolygon, polygonToDraw>>
       ELSE /\ currentPolygon' = Append(currentPolygon, NormalizedPoint(cx, cy))
            /\ drawSafeAreas(currentPolygon')

\* only draws: the preview polygon [...currentPolygon, point] is a copy
handleCanvasMouseMoveCall(cx, cy) ==
    /\ alertMsg' = "none"
    /\ defaultPrevented' = FALSE
    /\ UNCHANGED store
    /\ UNCHANGED pageVars
    /\ UNCHANGED <<cameraVars, polygonVars, sessionVars, canvasVars,
                   saveStatus, requestVars>>
    /\ IF ~isEditing \/ Len(currentPolygon) = 0
       THEN UNCHANGED polygonToDraw
       ELSE drawSafeAreas(Append(currentPolygon, NormalizedPoint(cx, cy)))

handleCanvasMouseMove(cx, cy) == listeners /\ handleCanvasMouseMoveCall(cx, cy)

\* handleCanvasRightClick calling preventDefault after its early return
handleCanvasRightClick_PreventsAfterReturn ==
    /\ listeners
    /\ defaultPrevented' = ~(~isEditing \/ Len(currentPolygon) = 0)
    /\ UNCHANGED store
    /\ UNCHANGED pageVars
    /\ IF ~isEditing \/ Len(currentPolygon) = 0
       THEN UNCHANGED polygonVars
       ELSE /\ currentPolygon' = SubSeq(currentPolygon, 1, Len(currentPolygon) - 1)
            /\ UNCHANGED safeAreas
    /\ alertMsg' = "none"
    /\ UNCHANGED <<cameraVars, sessionVars, canvasVars, saveStatus, requestVars>>
    /\ IF ~isEditing \/ Len(currentPolygon) = 0
       THEN UNCHANGED polygonToDraw
       ELSE drawSafeAreas(NoPreview)

handleCanvasRightClickCall ==
    /\ defaultPrevented' = TRUE
    /\ UNCHANGED store
    /\ UNCHANGED pageVars
    /\ IF ~isEditing \/ Len(currentPolygon) = 0
       THEN UNCHANGED polygonVars
       ELSE /\ currentPolygon' = SubSeq(currentPolygon, 1, Len(currentPolygon) - 1)
            /\ UNCHANGED safeAreas
    /\ alertMsg' = "none"
    /\ UNCHANGED <<cameraVars, sessionVars, canvasVars, saveStatus, requestVars>>
    /\ IF ~isEditing \/ Len(currentPolygon) = 0
       THEN UNCHANGED polygonToDraw
       ELSE drawSafeAreas(NoPreview)

handleCanvasRightClick == listeners /\ handleCanvasRightClickCall

\* startNewPolygon keeping a polygon of fewer than 3 points
startNewPolygon_KeepsPartial ==
    /\ canvasContext /\ popupShown
    /\ finishCurrentPolygon
    /\ alertMsg' = "none"
    /\ defaultPrevented' = FALSE
    /\ UNCHANGED store
    /\ UNCHANGED pageVars
    /\ UNCHANGED <<cameraVars, sessionVars, canvasVars, saveStatus, requestVars>>
    /\ drawSafeAreas(NoPreview)

startNewPolygon ==
    /\ canvasContext /\ popupShown
    /\ IF Len(currentPolygon) >= 3
       THEN finishCurrentPolygon
       ELSE /\ currentPolygon' = << >>
            /\ UNCHANGED safeAreas
    /\ alertMsg' = "none"
    /\ defaultPrevented' = FALSE
    /\ UNCHANGED store
    /\ UNCHANGED pageVars
    /\ UNCHANGED <<cameraVars, sessionVars, canvasVars, saveStatus, requestVars>>
    /\ drawSafeAreas(NoPreview)

\* clearAllPolygons clearing without regard to the answer
clearAllPolygons_IgnoresAnswer(confirmed) ==
    /\ canvasContext /\ popupShown
    /\ safeAreas' = << >>
    /\ currentPolygon' = << >>
    /\ alertMsg' = "confirm_clear"
    /\ defaultPrevented' = FALSE
    /\ UNCHANGED store
    /\ UNCHANGED pageVars
    /\ UNCHANGED <<cameraVars, sessionVars, canvasVars, saveStatus, requestVars>>
    /\ drawSafeAreas(NoPreview)

\* confirmed is the answer to confirm("Clear all safe areas?")
clearAllPolygons(confirmed) ==
    /\ canvasContext /\ popupShown
    /\ IF confirmed
       THEN /\ safeAreas' = << >>
            /\ currentPolygon' = << >>
       ELSE UNCHANGED polygonVars
    /\ alertMsg' = "confirm_clear"
    /\ defaultPrevented' = FALSE
    /\ UNCHANGED store
    /\ UNCHANGED pageVars
    /\ UNCHANGED <<cameraVars, sessionVars, canvasVars, saveStatus, requestVars>>
    /\ IF confirmed THEN drawSafeAreas(NoPreview) ELSE UNCHANGED polygonToDraw

\* saveSafeAreas closing a pending polygon of two points as well
saveSafeAreas_ClosesPartial ==
    /\ canvasContext /\ popupShown
    /\ IF Len(currentPolygon) >= 2
       THEN /\ safeAreas' = Append(safeAreas, currentPolygon)
            /\ currentPolygon' = << >>
       ELSE UNCHANGED polygonVars
    /\ saveStatus' = "saving"
    /\ pendingSaves' = pendingSaves (+)
          SetToBag({[camera_id |-> currentCameraId, safe_areas |-> safeAreas']})
    /\ alertMsg' = "none"
    /\ defaultPrevented' = FALSE
    /\ UNCHANGED store
    /\ UNCHANGED pageVars
    /\ UNCHANGED polygonToDraw
    /\ UNCHANGED <<cameraVars, sessionVars, canvasVars, pendingLoads,
                   pendingImages, pendingCommands, closeTimers>>

\* saveSafeAreas serializing the request before it closes the pending polygon
saveSafeAreas_BodyBeforeClose ==
    /\ canvasContext /\ popupShown
    /\ IF Len(currentPolygon) >= 3
       THEN /\ safeAreas' = Append(safeAreas, currentPolygon)
            /\ currentPolygon' = << >>
       ELSE UNCHANGED polygonVars
    /\ saveStatus' = "saving"
    /\ pendingSaves' = pendingSaves (+)
          SetToBag({[camera_id |-> currentCameraId, safe_areas |-> safeAreas]})
    /\ alertMsg' = "none"
    /\ defaultPrevented' = FALSE
    /\ UNCHANGED store
    /\ UNCHANGED pageVars
    /\ UNCHANGED polygonToDraw
    /\ UNCHANGED <<cameraVars, sessionVars, canvasVars, pendingLoads,
                   pendingImages, pendingCommands, closeTimers>>

(***************************************************************************)
(* saveSafeAreas, up to its await: the pending polygon is closed, then the *)
(* request body is serialized from currentCameraId and safeAreas.          *)
(***************************************************************************)
saveSafeAreas ==
    /\ canvasContext /\ popupShown
    /\ IF Len(currentPolygon) >= 3
       THEN /\ safeAreas' = Append(safeAreas, currentPolygon)
            /\ currentPolygon' = << >>
       ELSE UNCHANGED polygonVars
    /\ saveStatus' = "saving"
    /\ pendingSaves' = pendingSaves (+)
          SetToBag({[camera_id |-> currentCameraId, safe_areas |-> safeAreas']})
    /\ alertMsg' = "none"
    /\ defaultPrevented' = FALSE
    /\ UNCHANGED store
    /\ UNCHANGED pageVars
    /\ UNCHANGED polygonToDraw
    /\ UNCHANGED <<cameraVars, sessionVars, canvasVars, pendingLoads,
                   pendingImages, pendingCommands, closeTimers>>

(***************************************************************************)
(* sendCommand(command, value), as saveSafeAreas calls it.                 *)
(***************************************************************************)
\* sendCommand posting whatever isConnected is
sendCommand_NoConnectionCheck(command, value) ==
    /\ alertMsg' = "none"
    /\ defaultPrevented' = FALSE
    /\ UNCHANGED polygonToDraw
    /\ pendingCommands' = pendingCommands (+)
          SetToBag({[camera_id |-> currentCameraId, command |-> command,
                     value |-> value]})

sendCommand(command, value) ==
    IF ~isConnected
    THEN /\ alertMsg' = "command_disconnected"
         /\ defaultPrevented' = FALSE
         /\ UNCHANGED polygonToDraw
         /\ UNCHANGED pendingCommands
    ELSE /\ alertMsg' = "none"
         /\ defaultPrevented' = FALSE
         /\ UNCHANGED polygonToDraw
         /\ pendingCommands' = pendingCommands (+)
               SetToBag({[camera_id |-> currentCameraId, command |-> command,
                          value |-> value]})

(***************************************************************************)
(* saveSafeAreas after its fetch settles.                                  *)
(***************************************************************************)
SaveOutcomes == {"ok", "http_error", "exception"}

\* saveSafeAreas closing the popup after a failed save as after a successful one
SaveSettles_ClosesOnFailure(req, outcome) ==
    /\ BagIn(req, pendingSaves)
    /\ pendingSaves' = pendingSaves (-) SetToBag({req})
    /\ IF outcome = "ok"
       THEN /\ saveStatus' = "success"
            /\ sendCommand("update_safe_areas", safeAreas)
       ELSE /\ saveStatus' = "error"
            /\ alertMsg' = "none"
            /\ defaultPrevented' = FALSE
            /\ UNCHANGED polygonToDraw
            /\ UNCHANGED pendingCommands
    /\ closeTimers' = closeTimers + 1
    /\ UNCHANGED <<cameraVars, polygonVars, sessionVars, canvasVars,
                   pendingLoads, pendingImages, pageVars>>

\* saveSafeAreas showing success without scheduling the close
SaveSettles_NoCloseTimer(req, outcome) ==
    /\ BagIn(req, pendingSaves)
    /\ pendingSaves' = pendingSaves (-) SetToBag({req})
    /\ IF outcome = "ok"
       THEN /\ saveStatus' = "success"
            /\ sendCommand("update_safe_areas", safeAreas)
       ELSE /\ saveStatus' = "error"
            /\ alertMsg' = "none"
            /\ defaultPrevented' = FALSE
            /\ UNCHANGED polygonToDraw
            /\ UNCHANGED pendingCommands
    /\ UNCHANGED closeTimers
    /\ UNCHANGED <<cameraVars, polygonVars, sessionVars, canvasVars,
                   pendingLoads, pendingImages, pageVars>>

\* saveSafeAreas notifying the camera after a failed save as well
SaveSettles_CommandOnFailure(req, outcome) ==
    /\ BagIn(req, pendingSaves)
    /\ pendingSaves' = pendingSaves (-) SetToBag({req})
    /\ saveStatus' = IF outcome = "ok" THEN "success" ELSE "error"
    /\ sendCommand("update_safe_areas", safeAreas)
    /\ closeTimers' = IF outcome = "ok" THEN closeTimers + 1 ELSE closeTimers
    /\ UNCHANGED <<cameraVars, polygonVars, sessionVars, canvasVars,
                   pendingLoads, pendingImages, pageVars>>

SaveSettles(req, outcome) ==
    /\ BagIn(req, pendingSaves)
    /\ pendingSaves' = pendingSaves (-) SetToBag({req})
    /\ IF outcome = "ok"
       THEN /\ saveStatus' = "success"
            /\ sendCommand("update_safe_areas", safeAreas)
            /\ closeTimers' = closeTimers + 1
       ELSE /\ saveStatus' = "error"
            /\ alertMsg' = "none"
            /\ defaultPrevented' = FALSE
            /\ UNCHANGED polygonToDraw
            /\ UNCHANGED <<pendingCommands, closeTimers>>
    /\ UNCHANGED <<cameraVars, polygonVars, sessionVars, canvasVars,
                   pendingLoads, pendingImages, pageVars>>

(***************************************************************************)
(* JSON.stringify of the polygon set in the body of a set_safe_areas       *)
(* request, and response.json() of a get_safe_areas response.  A JSON      *)
(* number is kept as the double it denotes: JSON.stringify writes a finite *)
(* double as the shortest decimal that reads back as that double, and NaN  *)
(* as null; response.json() reads null as null.                            *)
(***************************************************************************)
Null == 0 - 2

JSONNull == <<"null">>

\* JSON.stringify writing every number with Math.round
JSONNumber_Rounded(x) ==
    <<"number", IF 2 * x >= NormDen THEN NormDen ELSE 0>>

JSONNumber(x) ==
    IF x = NaN THEN JSONNull ELSE <<"number", x>>

JSONStringify(polygons) ==
    [k \in 1..Len(polygons) |->
        [i \in 1..Len(polygons[k]) |->
            <<JSONNumber(polygons[k][i][1]), JSONNumber(polygons[k][i][2])>>]]

JSONValue(token) ==
    IF token = JSONNull THEN Null ELSE token[2]

JSONParse(text) ==
    [k \in 1..Len(text) |->
        [i \in 1..Len(text[k]) |->
            <<JSONValue(text[k][i][1]), JSONValue(text[k][i][2])>>]]

(***************************************************************************)
(* A backend that stores what set_safe_areas receives: the body of a       *)
(* request it answers with success replaces what it holds for the          *)
(* request's camera; a request that fails leaves it as it was.             *)
(***************************************************************************)
BackendStores(req, outcome) ==
    store' = IF outcome = "ok"
             THEN [store EXCEPT ![req.camera_id] = JSONStringify(req.safe_areas)]
             ELSE store

(***************************************************************************)
(* The completion of a POST /command request.                              *)
(***************************************************************************)
CommandSettles(req, ok) ==
    /\ BagIn(req, pendingCommands)
    /\ pendingCommands' = pendingCommands (-) SetToBag({req})
    /\ isConnected' = IF ok THEN isConnected ELSE FALSE
    /\ alertMsg' = "none"
    /\ defaultPrevented' = FALSE
    /\ UNCHANGED store
    /\ UNCHANGED pageVars
    /\ UNCHANGED polygonToDraw
    /\ UNCHANGED <<currentCameraId, polygonVars, sessionVars, canvasVars,
                   saveStatus, pendingLoads, pendingImages, pendingSaves,
                   closeTimers>>

(***************************************************************************)
(* hideSafeAreaPopup: called by the popup's cancel button and by the timer *)
(* a successful save sets.                                                 *)
(***************************************************************************)
hideSafeAreaPopup ==
    /\ popupShown' = FALSE
    /\ isEditing' = FALSE
    /\ listeners' = IF canvasContext THEN FALSE ELSE listeners

CancelEditor ==
    /\ popupShown
    /\ hideSafeAreaPopup
    /\ alertMsg' = "none"
    /\ defaultPrevented' = FALSE
    /\ UNCHANGED store
    /\ UNCHANGED pageVars
    /\ UNCHANGED polygonToDraw
    /\ UNCHANGED <<cameraVars, polygonVars, canvasContext, canvasVars,
                   saveStatus, requestVars>>

CloseTimerFires ==
    /\ closeTimers > 0
    /\ closeTimers' = closeTimers - 1
    /\ hideSafeAreaPopup
    /\ alertMsg' = "none"
    /\ defaultPrevented' = FALSE
    /\ UNCHANGED store
    /\ UNCHANGED pageVars
    /\ UNCHANGED polygonToDraw
    /\ UNCHANGED <<cameraVars, polygonVars, canvasContext, canvasVars,
                   saveStatus, pendingLoads, pendingImages, pendingSaves,
                   pendingCommands>>

\* the model's cap on the vertices a click may add
RECURSIVE VertexCount(_)
VertexCount(polygons) ==
    IF polygons = << >> THEN 0
    ELSE Len(Head(polygons)) + VertexCount(Tail(polygons))

ClickInBounds(cx, cy) ==
    \/ ClickCloses(NormalizedPoint(cx, cy))
    \/ VertexCount(safeAreas) + Len(currentPolygon) < MaxVertices

(***************************************************************************)
(* Spec: opening and closing the editor, from page start, under every      *)
(* interleaving of open actions, camera selections, connection changes and *)
(* the completions of their requests.                                      *)
(***************************************************************************)
Next ==
    \/ \E b \in BOOLEAN : updateConnectionStatus(b)
    \/ \E c \in CameraIds, b \in BOOLEAN :
          InFlight < MaxPending /\ cameraSelectOnChange(c, b)
    \/ (isConnected => InFlight < MaxPending) /\ showSafeAreaEditor
    \/ \E req \in BagToSet(pendingLoads), o \in LoadOutcomes, body \in Bodies :
          LoadSettles(req, o, body)
    \/ \E img \in BagToSet(pendingImages), size \in ImageSizes : imageOnLoad(img, size)
    \/ \E img \in BagToSet(pendingImages) : imageOnError(img)
    \/ windowOnResize
    \/ CancelEditor

Spec == Init /\ [][Next]_vars

(***************************************************************************)
(* A Ready session: the editor as an open action leaves it once the        *)
(* snapshot of the given size has decoded, the stream running and no poll  *)
(* in flight.                                                              *)
(***************************************************************************)
Ready(cameras, sizes) ==
    /\ isConnected = TRUE
    /\ currentCameraId \in cameras
    /\ safeAreas \in Bodies
    /\ currentPolygon = << >>
    /\ isEditing = TRUE
    /\ popupShown = TRUE
    /\ canvasContext = TRUE
    /\ listeners = TRUE
    /\ \E size \in sizes :
          /\ backgroundImage = [status |-> "loaded", width |-> size[1], height |-> size[2]]
          /\ originalImageWidth = size[1]
          /\ originalImageHeight = size[2]
          /\ canvasScale = ScaleFor(size[1], size[2])
    /\ saveStatus = ""
    /\ alertMsg = "none"
    /\ defaultPrevented = FALSE
    /\ polygonToDraw = << >>
    /\ pendingLoads = EmptyBag
    /\ pendingImages = EmptyBag
    /\ pendingSaves = EmptyBag
    /\ pendingCommands = EmptyBag
    /\ closeTimers = 0
    /\ store = [c \in CameraIds |-> << >>]
    /\ streamRefreshInterval = 1
    /\ liveIntervals = {1}
    /\ streamRequest = "none"
    /\ errorCount = 0
    /\ toggleRecord = FALSE
    /\ pendingLists = FALSE
    /\ pendingStates = {}
    /\ pendingChecks = {}

(***************************************************************************)
(* SpecDraw: drawing in a Ready session, for every snapshot size.          *)
(***************************************************************************)
InitDraw == Ready({"cam_1"}, ImageSizes)

NextDraw ==
    \/ \E p \in ClickPoints : ClickInBounds(p[1], p[2]) /\ handleCanvasClick(p[1], p[2])
    \/ handleCanvasRightClick
    \/ startNewPolygon
    \/ \E confirmed \in BOOLEAN : clearAllPolygons(confirmed)
    \/ windowOnResize

SpecDraw == InitDraw /\ [][NextDraw]_vars

(***************************************************************************)
(* SpecMove: drawing with the pointer moving over the canvas between the   *)
(* clicks, the preview following it.                                       *)
(***************************************************************************)
MoveClicks == {<<80, 60>>, <<400, 60>>}

InitMove == Ready({"cam_1"}, {<<1600, 1200>>})

NextMove ==
    \/ \E p \in MoveClicks : ClickInBounds(p[1], p[2]) /\ handleCanvasClick(p[1], p[2])
    \/ \E p \in ClickPoints : handleCanvasMouseMove(p[1], p[2])
    \/ handleCanvasRightClick
    \/ startNewPolygon
    \/ windowOnResize

SpecMove == InitMove /\ [][NextMove]_vars

(***************************************************************************)
(* SpecSave: a Ready session that draws and saves: saves and their         *)
(* completions, the command that follows a save, the close timer and the   *)
(* cancel button, with connection changes in between.                      *)
(***************************************************************************)
SaveClicks == {<<80, 60>>, <<400, 60>>}

InitSave == Ready(CameraIds, {<<1600, 1200>>})

SaveSteps(clicks) ==
    \/ \E b \in BOOLEAN : updateConnectionStatus(b)
    \/ \E p \in clicks : ClickInBounds(p[1], p[2]) /\ handleCanvasClick(p[1], p[2])
    \/ InFlight < MaxPending /\ saveSafeAreas
    \/ \E req \in BagToSet(pendingSaves), o \in SaveOutcomes :
          SaveSettles(req, o) /\ UNCHANGED store
    \/ \E req \in BagToSet(pendingCommands), ok \in BOOLEAN : CommandSettles(req, ok)
    \/ CancelEditor
    \/ CloseTimerFires

NextSave == SaveSteps(SaveClicks)

SpecSave == InitSave /\ [][NextSave]_vars

(***************************************************************************)
(* SpecSaveLive: the saving session, the user drawing at one position,     *)
(* with the fairness the browser's timer queue gives: a timer that was set *)
(* fires.                                                                  *)
(***************************************************************************)
NextSaveLive == SaveSteps({<<80, 60>>})

SpecSaveLive == InitSave /\ [][NextSaveLive]_vars /\ WF_vars(CloseTimerFires)

(***************************************************************************)
(* SpecEdit: one session from Ready to its close, with every handler that  *)
(* draws and the save: clicks, pointer moves, undo, new polygon, save and  *)
(* the completions that follow it.                                         *)
(***************************************************************************)
InitEdit == Ready({"cam_1"}, {<<1600, 1200>>})

NextEdit ==
    \/ \E p \in MoveClicks : ClickInBounds(p[1], p[2]) /\ handleCanvasClick(p[1], p[2])
    \/ \E p \in MoveClicks : handleCanvasMouseMove(p[1], p[2])
    \/ handleCanvasRightClick
    \/ startNewPolygon
    \/ InFlight < MaxPending /\ saveSafeAreas
    \/ \E req \in BagToSet(pendingSaves), o \in SaveOutcomes :
          SaveSettles(req, o) /\ UNCHANGED store
    \/ \E req \in BagToSet(pendingCommands), ok \in BOOLEAN : CommandSettles(req, ok)
    \/ CloseTimerFires

SpecEdit == InitEdit /\ [][NextEdit]_vars

(***************************************************************************)
(* SpecReopen: a Ready session in which the open action is taken again:    *)
(* its load and its snapshot complete in any order with the clicks and     *)
(* the viewport resizes of the session.                                    *)
(***************************************************************************)
ReopenClicks == {<<80, 60>>}

InitReopen == Ready({"cam_1"}, {<<1600, 1200>>})

NextReopen ==
    \/ InFlight < MaxPending /\ showSafeAreaEditor
    \/ \E req \in BagToSet(pendingLoads), o \in LoadOutcomes, body \in Bodies :
          LoadSettles(req, o, body)
    \/ \E img \in BagToSet(pendingImages), size \in ImageSizes : imageOnLoad(img, size)
    \/ \E img \in BagToSet(pendingImages) : imageOnError(img)
    \/ windowOnResize
    \/ \E p \in ReopenClicks : ClickInBounds(p[1], p[2]) /\ handleCanvasClick(p[1], p[2])

SpecReopen == InitReopen /\ [][NextReopen]_vars

(***************************************************************************)
(* SpecStore: the page with a backend that stores what set_safe_areas      *)
(* receives, this page its only writer.  A session on a camera with no     *)
(* stored polygons draws, saves and is opened again; the response of a     *)
(* load is what the backend holds for the camera of the request.           *)
(***************************************************************************)
StoreClicks == {<<80, 60>>, <<400, 60>>, <<240, 240>>}

NextVertex(cx, cy) ==
    NormalizedPoint(cx, cy) = StoredTriangle[(Len(currentPolygon) % 3) + 1]

InitStore == Ready({"cam_1"}, {<<1600, 1200>>}) /\ safeAreas = << >>

NextStore ==
    \/ \E p \in StoreClicks :
          /\ ClickInBounds(p[1], p[2])
          /\ NextVertex(p[1], p[2])
          /\ handleCanvasClick(p[1], p[2])
    \/ /\ InFlight < MaxPending
       /\ VertexCount(safeAreas) + Len(currentPolygon) <= MaxVertices
       /\ saveSafeAreas
    \/ \E req \in BagToSet(pendingSaves), o \in SaveOutcomes :
          SaveSettles(req, o) /\ BackendStores(req, o)
    \/ \E req \in BagToSet(pendingCommands), ok \in BOOLEAN : CommandSettles(req, ok)
    \/ CloseTimerFires
    \/ InFlight < MaxPending /\ showSafeAreaEditor
    \/ \E req \in BagToSet(pendingLoads), o \in LoadOutcomes :
          LoadSettles(req, o, JSONParse(store[req.cam]))
    \/ \E img \in BagToSet(pendingImages) : imageOnLoad(img, <<1600, 1200>>)
    \/ windowOnResize

SpecStore == InitStore /\ [][NextStore]_vars

(***************************************************************************)
(* SpecClose: a Ready session up to its close and what completes after it. *)
(* The open action is taken only while the popup is shown, so that after a *)
(* close no open action follows: what happens then is the work of the      *)
(* closed session's requests, Images and timers.                           *)
(***************************************************************************)
InitClose == Ready({"cam_1"}, {<<1600, 1200>>})

NextClose ==
    \/ popupShown /\ InFlight < MaxPending /\ showSafeAreaEditor
    \/ \E req \in BagToSet(pendingLoads), o \in LoadOutcomes, body \in Bodies :
          LoadSettles(req, o, body)
    \/ \E img \in BagToSet(pendingImages) : imageOnLoad(img, <<1600, 1200>>)
    \/ \E img \in BagToSet(pendingImages) : imageOnError(img)
    \/ InFlight < MaxPending /\ saveSafeAreas
    \/ \E req \in BagToSet(pendingSaves), o \in SaveOutcomes :
          SaveSettles(req, o) /\ UNCHANGED store
    \/ \E req \in BagToSet(pendingCommands), ok \in BOOLEAN : CommandSettles(req, ok)
    \/ CancelEditor
    \/ CloseTimerFires

SpecClose == InitClose /\ [][NextClose]_vars

(***************************************************************************)
(* SpecSelect: one Ready session, opened for SessionCamera, during which   *)
(* the user selects cameras and the camera-list poll answers: drawing,     *)
(* saves and their completions, and the loads the selections start.  No    *)
(* open action is taken.                                                   *)
(***************************************************************************)
SessionCamera == "cam_1"

SelectClicks == {<<80, 60>>}

\* the lists the poll answers with: empty, or SessionCamera alone
SelectLists == {cameras \in CameraLists : IdsOf(cameras) \subseteq {SessionCamera}}

InitSelect == Ready({SessionCamera}, {<<1600, 1200>>})

NextSelect ==
    \/ \E p \in SelectClicks : ClickInBounds(p[1], p[2]) /\ handleCanvasClick(p[1], p[2])
    \/ \E c \in CameraIds, online \in BOOLEAN :
          InFlight < MaxPending /\ cameraSelectOnChange(c, online)
    \/ cameraListTimerFires
    \/ \E o \in FetchOutcomes, cameras \in SelectLists : loadCameraListSettles(o, cameras)
    \/ \E req \in BagToSet(pendingLoads), o \in LoadOutcomes, body \in Bodies :
          LoadSettles(req, o, body)
    \/ /\ InFlight < MaxPending
       /\ VertexCount(safeAreas) + Len(currentPolygon) <= MaxVertices
       /\ saveSafeAreas
    \/ \E req \in BagToSet(pendingSaves), o \in SaveOutcomes :
          SaveSettles(req, o) /\ UNCHANGED store
    \/ \E req \in BagToSet(pendingCommands), ok \in BOOLEAN : CommandSettles(req, ok)
    \/ CloseTimerFires

SpecSelect == InitSelect /\ [][NextSelect]_vars

(***************************************************************************)
(* SpecTimer: a first session, Ready on a snapshot of 1600 x 1200, that    *)
(* saves and is closed, and a second session opened from the closed        *)
(* editor, whose snapshot decodes as 1200 x 1200.  Saves are pressed in    *)
(* the first session only, so every close timer is one of its saves.       *)
(***************************************************************************)
FirstSnapshot == <<1600, 1200>>
SecondSnapshot == <<1200, 1200>>

InSession(size) ==
    /\ isEditing /\ popupShown /\ listeners
    /\ backgroundImage = [status |-> "loaded", width |-> size[1], height |-> size[2]]

InitTimer == Ready({"cam_1"}, {FirstSnapshot})

NextTimer ==
    \/ \E p \in SelectClicks : ClickInBounds(p[1], p[2]) /\ handleCanvasClick(p[1], p[2])
    \/ /\ InSession(FirstSnapshot)
       /\ InFlight < MaxPending
       /\ VertexCount(safeAreas) + Len(currentPolygon) <= MaxVertices
       /\ saveSafeAreas
    \/ \E req \in BagToSet(pendingSaves), o \in SaveOutcomes :
          SaveSettles(req, o) /\ UNCHANGED store
    \/ \E req \in BagToSet(pendingCommands), ok \in BOOLEAN : CommandSettles(req, ok)
    \/ CancelEditor
    \/ ~popupShown /\ InFlight < MaxPending /\ showSafeAreaEditor
    \/ \E req \in BagToSet(pendingLoads), o \in LoadOutcomes, body \in Bodies :
          LoadSettles(req, o, body)
    \/ \E img \in BagToSet(pendingImages) : imageOnLoad(img, SecondSnapshot)
    \/ CloseTimerFires

SpecTimer == InitTimer /\ [][NextTimer]_vars

(***************************************************************************)
(* SpecCalls: the three canvas handlers called in a session that is Ready  *)
(* and after its close, whether or not a listener is attached.  (In the    *)
(* page the listeners are detached whenever isEditing is false, so there   *)
(* the handlers never run with isEditing false.)                           *)
(***************************************************************************)
InitCalls == Ready({"cam_1"}, {<<1600, 1200>>})

NextCalls ==
    \/ \E p \in MoveClicks :
          ClickInBounds(p[1], p[2]) /\ handleCanvasClickCall(p[1], p[2])
    \/ \E p \in MoveClicks : handleCanvasMouseMoveCall(p[1], p[2])
    \/ handleCanvasRightClickCall
    \/ finishCurrentPolygonCall
    \/ CancelEditor

SpecCalls == InitCalls /\ [][NextCalls]_vars

(***************************************************************************)
(* SpecStream: the page from its start, the editor never opened: the       *)
(* stream, its frames and every handler that starts or stops it - camera   *)
(* selections, camera-list answers, forgetting and approving cameras and   *)
(* manual refreshes.                                                       *)
(***************************************************************************)
NextStream ==
    \/ \E id \in liveIntervals : refreshStreamImage(id)
    \/ streamImgOnLoad
    \/ streamImgOnError
    \/ cameraListTimerFires
    \/ \E o \in FetchOutcomes, cameras \in CameraLists : loadCameraListSettles(o, cameras)
    \/ \E c \in ListedIds, online \in BOOLEAN :
          InFlight < MaxPending /\ cameraSelectOnChange(c, online)
    \/ \E req \in BagToSet(pendingLoads), o \in LoadOutcomes, body \in Bodies :
          LoadSettles(req, o, body)
    \/ \E cameras \in CameraLists : forgetCameraResumes(cameras)
    \/ \E c \in ListedIds : approveCameraResumes(c)
    \/ refreshCamerasBtnResumes

SpecStream == Init /\ [][NextStream]_vars

(***************************************************************************)
(* SpecPage: the page from its start, the editor never opened and no frame *)
(* delivered: the polls and their answers, camera selections and the       *)
(* safe-area loads they start, and forgetting cameras.                     *)
(***************************************************************************)
NextPage ==
    \/ cameraListTimerFires
    \/ cameraStateTimerFires
    \/ \E available \in SUBSET ListedIds : cameraStatusTimerFires(available)
    \/ \E o \in FetchOutcomes, cameras \in CameraLists : loadCameraListSettles(o, cameras)
    \/ \E c \in pendingStates, o \in FetchOutcomes, flags \in Flags :
          fetchCameraStateSettles(c, o, flags)
    \/ \E c \in pendingChecks, o \in FetchOutcomes, connected \in BOOLEAN :
          checkCameraConnectionSettles(c, o, connected)
    \/ \E c \in ListedIds, online \in BOOLEAN :
          InFlight < MaxPending /\ cameraSelectOnChange(c, online)
    \/ \E req \in BagToSet(pendingLoads), o \in LoadOutcomes, body \in Bodies :
          LoadSettles(req, o, body)
    \/ \E cameras \in CameraLists : forgetCameraResumes(cameras)

SpecPage == Init /\ [][NextPage]_vars

(***************************************************************************)
(* The session states.                                                     *)
(***************************************************************************)
Closed == ~isEditing /\ ~popupShown /\ ~listeners
FailedOutcomes == {"http_error", "exception"}
LastOf(seq) == seq[Len(seq)]

(***************************************************************************)
(* C1: showSafeAreaEditor invoked while isConnected is false raises the    *)
(* alert, issues neither a get_safe_areas nor a snapshot request, and      *)
(* leaves isEditing, the popup and the listeners as they were: a closed    *)
(* editor stays closed.                                                    *)
(***************************************************************************)
C1_RefusedOpen ==
    [][(~isConnected /\ showSafeAreaEditor) =>
          /\ alertMsg' = "disconnected"
          /\ pendingLoads' = pendingLoads
          /\ pendingImages' = pendingImages
          /\ backgroundImage' = backgroundImage
          /\ isEditing' = isEditing
          /\ popupShown' = popupShown
          /\ listeners' = listeners]_vars

C1_Witness ==
    /\ alertMsg = "disconnected"
    /\ ~isConnected
    /\ ~isEditing
    /\ ~popupShown
    /\ pendingLoads = EmptyBag
    /\ pendingImages = EmptyBag

(***************************************************************************)
(* C2: in every reachable state, pointer input is accepted (isEditing and  *)
(* the listeners attached) only if the Image held as backgroundImage has   *)
(* decoded.                                                                *)
(***************************************************************************)
C2_EditingOnlyOnDecodedImage ==
    (isEditing /\ listeners) => backgroundImage.status = "loaded"

(***************************************************************************)
(* C3: when the snapshot of an open attempt fails to decode, the editor    *)
(* ends Closed, the alert is raised, and safeAreas no longer holds the set *)
(* loaded for that attempt.                                                *)
(***************************************************************************)
C3_DecodeFailureDiscards ==
    [][\A img \in BagToSet(pendingImages) :
          imageOnError(img) =>
             /\ alertMsg' = "image_failed"
             /\ ~isEditing' /\ ~popupShown'
             /\ (img.returned # << >> => safeAreas' # img.returned)]_vars

(***************************************************************************)
(* C4: when loading the safe areas fails (exception, non-OK status or      *)
(* undecodable body), safeAreas becomes empty whatever it held before.     *)
(***************************************************************************)
C4_FailedLoadEmpties ==
    [][\A req \in BagToSet(pendingLoads), o \in FailedOutcomes, body \in Bodies :
          LoadSettles(req, o, body) => safeAreas' = << >>]_vars

(***************************************************************************)
(* C5: every time the editor becomes Ready, safeAreas is the set returned  *)
(* by the get_safe_areas request of that open action (empty if it failed). *)
(***************************************************************************)
C5_ReadyWithOwnLoad ==
    [][\A img \in BagToSet(pendingImages), size \in ImageSizes :
          (~isEditing /\ imageOnLoad(img, size)) => safeAreas' = img.returned]_vars

(***************************************************************************)
(* C6: a save with at least 3 points in currentPolygon appends it as the   *)
(* last element of safeAreas and empties currentPolygon, and the request   *)
(* it issues carries that polygon, its points in drawing order, last.      *)
(***************************************************************************)
C6_SaveClosesPending ==
    [][(Len(currentPolygon) >= 3 /\ saveSafeAreas) =>
          /\ safeAreas' = Append(safeAreas, currentPolygon)
          /\ currentPolygon' = << >>
          /\ \E req \in BagToSet(pendingSaves') :
                /\ CopiesIn(req, pendingSaves') = CopiesIn(req, pendingSaves) + 1
                /\ req.safe_areas = Append(safeAreas, currentPolygon)
                /\ LastOf(req.safe_areas) = currentPolygon]_vars

C6_Witness ==
    /\ saveStatus = "saving"
    /\ currentPolygon = << >>
    /\ \E req \in BagToSet(pendingSaves) :
          /\ Len(req.safe_areas) = 2
          /\ req.safe_areas = safeAreas
          /\ LastOf(req.safe_areas)[1] # LastOf(req.safe_areas)[2]

(***************************************************************************)
(* C7: when a save fails (exception or non-OK status) the handler shows    *)
(* the failure and changes nothing else: isEditing, the popup and the      *)
(* listeners stay, no close is scheduled, no request is issued, and        *)
(* safeAreas and currentPolygon are what they were.                        *)
(***************************************************************************)
C7_FailedSaveKeepsSession ==
    [][\A req \in BagToSet(pendingSaves), o \in FailedOutcomes :
          SaveSettles(req, o) =>
             /\ saveStatus' = "error"
             /\ isEditing' = isEditing
             /\ popupShown' = popupShown
             /\ listeners' = listeners
             /\ closeTimers' = closeTimers
             /\ pendingSaves' = pendingSaves (-) SetToBag({req})
             /\ pendingCommands' = pendingCommands
             /\ pendingLoads' = pendingLoads
             /\ safeAreas' = safeAreas
             /\ currentPolygon' = currentPolygon]_vars

C7_Witness ==
    /\ saveStatus = "error"
    /\ isEditing /\ popupShown /\ listeners
    /\ closeTimers = 0
    /\ InFlight = 0
    /\ Len(safeAreas) = 2
    /\ LastOf(safeAreas) # StoredTriangle

(***************************************************************************)
(* C8: a save answered with success shows the success status and sets the  *)
(* close timer, and with a close timer set the session reaches Closed with *)
(* no user action.                                                         *)
(***************************************************************************)
C8_SuccessThenClosed ==
    /\ [][\A req \in BagToSet(pendingSaves) :
             SaveSettles(req, "ok") =>
                saveStatus' = "success" /\ closeTimers' = closeTimers + 1]_vars
    /\ (closeTimers > 0) ~> Closed

C8_Witness ==
    /\ saveStatus = "success"
    /\ closeTimers = 0
    /\ Closed
    /\ pendingSaves = EmptyBag

(***************************************************************************)
(* C9: closing the editor discards currentPolygon: after the close it is   *)
(* empty.                                                                  *)
(***************************************************************************)
C9_CloseDiscardsPending ==
    [][(CancelEditor \/ CloseTimerFires) => currentPolygon' = << >>]_vars

(***************************************************************************)
(* C10: a primary click while editing closes the polygon when it has at    *)
(* least 3 points and the distance of the click to its first point, as the *)
(* handler computes it, is < 0.05: the polygon is appended whole to        *)
(* safeAreas, currentPolygon is emptied and the click's point is stored    *)
(* nowhere; every other click appends its normalized point to              *)
(* currentPolygon and leaves safeAreas alone.                              *)
(***************************************************************************)
\* the squared distance of two points, as an exact multiple of 1 / NormDen^2
SquaredDistance(p, q) ==
    (p[1] - q[1]) * (p[1] - q[1]) + (p[2] - q[2]) * (p[2] - q[2])

C11_ThresholdExclusive ==
    [][\A c \in ClickPoints :
          (isEditing /\ Len(currentPolygon) >= 3 /\ handleCanvasClick(c[1], c[2])) =>
             LET p == NormalizedPoint(c[1], c[2])
                 d2 == SquaredDistance(p, currentPolygon[1])
                 exact == (NormDen \div 20) * (NormDen \div 20)
                 inside == ((NormDen * 49) \div 1000) * ((NormDen * 49) \div 1000)
             IN /\ d2 = exact =>
                      /\ currentPolygon' = Append(currentPolygon, p)
                      /\ safeAreas' = safeAreas
                /\ d2 <= inside =>
                      /\ safeAreas' = Append(safeAreas, currentPolygon)
                      /\ currentPolygon' = << >>]_vars

(***************************************************************************)
(* C12: a context click while editing removes exactly the last point of    *)
(* currentPolygon when there is one and leaves safeAreas alone; with an    *)
(* empty currentPolygon it changes nothing and raises nothing; in both     *)
(* cases the default context menu is suppressed.                           *)
(***************************************************************************)
C12_ContextClickUndoes ==
    [][(isEditing /\ handleCanvasRightClick) =>
          /\ defaultPrevented'
          /\ alertMsg' = "none"
          /\ safeAreas' = safeAreas
          /\ IF Len(currentPolygon) > 0
             THEN /\ Len(currentPolygon') = Len(currentPolygon) - 1
                  /\ \A i \in 1..Len(currentPolygon') :
                        currentPolygon'[i] = currentPolygon[i]
             ELSE UNCHANGED <<cameraVars, polygonVars, sessionVars, canvasVars,
                             saveStatus, requestVars>>]_vars

\* the context click took the third point of a polygon under way
C12_Witness ==
    /\ defaultPrevented
    /\ isEditing
    /\ Len(currentPolygon) = 2
    /\ Len(safeAreas) = 1

(***************************************************************************)
(* C13: the new-polygon button appends a currentPolygon of at least 3      *)
(* points to safeAreas, once, and in every case leaves currentPolygon      *)
(* empty; with fewer than 3 points safeAreas is unchanged.                 *)
(***************************************************************************)
C13_NewPolygon ==
    [][startNewPolygon =>
          /\ currentPolygon' = << >>
          /\ IF Len(currentPolygon) >= 3
             THEN safeAreas' = Append(safeAreas, currentPolygon)
             ELSE safeAreas' = safeAreas]_vars

\* a polygon of five points, none of the later ones near the first, was
\* closed, and currentPolygon is empty
C13_Witness ==
    /\ currentPolygon = << >>
    /\ alertMsg = "none"
    /\ Len(safeAreas) = 1
    /\ Len(safeAreas[1]) = 5
    /\ \A i \in 2..5 : ~WithinCloseDistance(safeAreas[1][i], safeAreas[1][1])

(***************************************************************************)
(* C14: the clear-all button changes the polygons only when the user       *)
(* confirms: then safeAreas and currentPolygon are both empty; when the    *)
(* user declines both are unchanged.                                       *)
(***************************************************************************)
C14_ClearAll ==
    [][\A confirmed \in BOOLEAN :
          clearAllPolygons(confirmed) =>
             IF confirmed
             THEN safeAreas' = << >> /\ currentPolygon' = << >>
             ELSE UNCHANGED polygonVars]_vars

\* the user declined with polygons drawn
C14_Witness ==
    /\ alertMsg = "confirm_clear"
    /\ Len(safeAreas) = 1
    /\ Len(currentPolygon) = 2

(***************************************************************************)
(* C15: moving the pointer, and the rendering it causes, never change the  *)
(* polygons: handleCanvasMouseMove leaves safeAreas and currentPolygon as  *)
(* they were, and the preview point is on the canvas only, as the last     *)
(* point of the polygon drawn dashed.                                      *)
(***************************************************************************)
C15_PointerMoveOnlyDraws ==
    [][\A c \in ClickPoints :
          handleCanvasMouseMove(c[1], c[2]) =>
             /\ safeAreas' = safeAreas
             /\ currentPolygon' = currentPolygon
             /\ (isEditing /\ Len(currentPolygon) > 0) =>
                   polygonToDraw' = Append(currentPolygon', NormalizedPoint(c[1], c[2]))]_vars

\* a preview is on the canvas, its last point in no polygon
C15_Witness ==
    /\ Len(currentPolygon) = 2
    /\ Len(safeAreas) = 1
    /\ Len(polygonToDraw) = 3
    /\ SubSeq(polygonToDraw, 1, 2) = currentPolygon
    /\ \A i \in 1..2 : currentPolygon[i] # polygonToDraw[3]
    /\ \A i \in 1..Len(safeAreas[1]) : safeAreas[1][i] # polygonToDraw[3]

InUnitInterval(n) == 0 <= n /\ n <= NormDen

PolygonNormalized(polygon) ==
    \A i \in 1..Len(polygon) :
        InUnitInterval(polygon[i][1]) /\ InUnitInterval(polygon[i][2])

C17_CoordinatesNormalized ==
    /\ PolygonNormalized(currentPolygon)
    /\ \A k \in 1..Len(safeAreas) : PolygonNormalized(safeAreas[k])
    /\ \A req \in BagToSet(pendingSaves) :
          \A k \in 1..Len(req.safe_areas) : PolygonNormalized(req.safe_areas[k])

(***************************************************************************)
(* C18: whenever the session is Ready (editing on a decoded background of  *)
(* natural size W x H), canvasScale is min(800 / W, 600 / H); a viewport   *)
(* resize while editing computes it again from the background; and for a   *)
(* background of 1600 x 1200 it is 0.5.                                    *)
(***************************************************************************)
\* the rational r = <<num, den>> is min(800 / w, 600 / h), for w, h > 0
IsFitScale(r, w, h) ==
    /\ r[2] > 0
    /\ r[1] * w <= 800 * r[2]
    /\ r[1] * h <= 600 * r[2]
    /\ r[1] * w = 800 * r[2] \/ r[1] * h = 600 * r[2]

C18_ScaleFitsBackground ==
    /\ []((isEditing /\ popupShown /\ backgroundImage.status = "loaded") =>
            /\ IsFitScale(canvasScale, backgroundImage.width, backgroundImage.height)
            /\ (backgroundImage.width = 1600 /\ backgroundImage.height = 1200) =>
                  2 * canvasScale[1] = canvasScale[2])
    /\ [][(windowOnResize /\ backgroundImage.status = "loaded") =>
             IsFitScale(canvasScale', backgroundImage.width, backgroundImage.height)]_vars

\* Ready on a background of 1600 x 1200 at scale 0.5, nothing in flight
C18_Witness ==
    /\ isEditing /\ popupShown /\ listeners
    /\ backgroundImage = [status |-> "loaded", width |-> 1600, height |-> 1200]
    /\ 2 * canvasScale[1] = canvasScale[2]
    /\ InFlight = 0

C20_PartialNeverStored ==
    /\ [][(Len(currentPolygon) < 3 /\ startNewPolygon) => safeAreas' = safeAreas]_vars
    /\ [][(Len(currentPolygon) < 3 /\ saveSafeAreas) =>
             /\ safeAreas' = safeAreas
             /\ \E req \in BagToSet(pendingSaves') :
                   /\ CopiesIn(req, pendingSaves') = CopiesIn(req, pendingSaves) + 1
                   /\ req.safe_areas = safeAreas]_vars
    /\ [](/\ \A k \in 1..Len(safeAreas) : Len(safeAreas[k]) >= 3
          /\ \A req \in BagToSet(pendingSaves) :
                \A k \in 1..Len(req.safe_areas) : Len(req.safe_areas[k]) >= 3)

\* two points were drawn on the empty set and the save sent the empty set
C20_Witness ==
    /\ Len(currentPolygon) = 2
    /\ safeAreas = << >>
    /\ saveStatus = "saving"
    /\ pendingSaves = SetToBag({[camera_id |-> "cam_1", safe_areas |-> << >>]})

(***************************************************************************)
(* C21: a save started while a set_safe_areas request is in flight issues  *)
(* no request and leaves safeAreas as it was.                              *)
(***************************************************************************)
C21_OneSaveInFlight ==
    [][(pendingSaves # EmptyBag /\ saveSafeAreas) =>
          /\ pendingSaves' = pendingSaves
          /\ safeAreas' = safeAreas]_vars

(***************************************************************************)
(* C22: an open action taken while an earlier one is still loading its     *)
(* polygons or its snapshot starts no load, and the onload of an Image     *)
(* that is no longer the global backgroundImage neither initializes the    *)
(* canvas nor enables editing.                                             *)
(***************************************************************************)
OpenInProgress ==
    \/ \E req \in BagToSet(pendingLoads) : req.purpose = "open"
    \/ pendingImages # EmptyBag

C22_OneOpenInProgress ==
    /\ [][(OpenInProgress /\ showSafeAreaEditor) =>
             pendingLoads' = pendingLoads]_vars
    /\ [][\A img \in BagToSet(pendingImages), size \in ImageSizes :
             (~img.current /\ imageOnLoad(img, size)) =>
                UNCHANGED <<sessionVars, canvasVars>>]_vars

(***************************************************************************)
(* C23: the completion of a save whose session has been closed changes     *)
(* nothing the user sees: the save status, the popup, the pending close    *)
(* timers and the alerts are as they were, and nothing is sent.            *)
(***************************************************************************)
C23_LateSaveDiscarded ==
    [][\A req \in BagToSet(pendingSaves), o \in SaveOutcomes :
          (Closed /\ SaveSettles(req, o)) =>
             /\ saveStatus' = saveStatus
             /\ closeTimers' = closeTimers
             /\ pendingCommands' = pendingCommands
             /\ alertMsg' = "none"]_vars

(***************************************************************************)
(* C24: a close (the cancel button or the timer of a successful save)      *)
(* leaves the three canvas listeners detached and isEditing false, and     *)
(* they stay so until the next open action.  In SpecClose no open action   *)
(* follows a close, so there a closed editor stays closed.                 *)
(***************************************************************************)
C24_ClosedStaysClosed ==
    /\ [][(CancelEditor \/ CloseTimerFires) => (~listeners' /\ ~isEditing')]_vars
    /\ [][(~popupShown /\ ~listeners /\ ~isEditing) =>
             (~listeners' /\ ~isEditing')]_vars

(***************************************************************************)
(* C25: every set_safe_areas request answered with success is followed at  *)
(* once by a POST /command with command update_safe_areas and the safe     *)
(* areas that were saved, whether or not the camera is connected.          *)
(***************************************************************************)
C25_CommandAfterSave ==
    [][\A req \in BagToSet(pendingSaves) :
          SaveSettles(req, "ok") =>
             \E cmd \in BagToSet(pendingCommands') :
                /\ CopiesIn(cmd, pendingCommands')
                      = (IF BagIn(cmd, pendingCommands)
                         THEN CopiesIn(cmd, pendingCommands) ELSE 0) + 1
                /\ cmd.command = "update_safe_areas"
                /\ cmd.value = req.safe_areas]_vars

(***************************************************************************)
(* C26: an update_safe_areas command is posted only in the step in which a *)
(* set_safe_areas request is answered with success: the save handler posts *)
(* nothing before the answer, a failed save posts nothing, and no other    *)
(* step adds a command.                                                    *)
(***************************************************************************)
CommandPosted ==
    \E cmd \in BagToSet(pendingCommands') :
        /\ cmd.command = "update_safe_areas"
        /\ CopiesIn(cmd, pendingCommands')
              > (IF BagIn(cmd, pendingCommands) THEN CopiesIn(cmd, pendingCommands) ELSE 0)

C26_CommandOnlyAfterSuccess ==
    /\ [][CommandPosted =>
             \E req \in BagToSet(pendingSaves) : SaveSettles(req, "ok")]_vars
    /\ [][saveSafeAreas => ~CommandPosted]_vars
    /\ [][\A req \in BagToSet(pendingSaves), o \in FailedOutcomes :
             SaveSettles(req, o) => ~CommandPosted]_vars

\* a save of two polygons succeeded: its command is in flight and its close
\* is scheduled
C26_Witness ==
    /\ saveStatus = "success"
    /\ pendingSaves = EmptyBag
    /\ closeTimers = 1
    /\ \E cmd \in BagToSet(pendingCommands) :
          /\ cmd.command = "update_safe_areas"
          /\ cmd.value = safeAreas
          /\ Len(cmd.value) = 2

(***************************************************************************)
(* C27: in every render the close ring is on the first vertex of the       *)
(* dashed polygon exactly when currentPolygon, without the preview point   *)
(* of a pointer move, has at least 3 points.                               *)
(***************************************************************************)
\* drawPolygon(polygon, 'cyan', false) strokes the ring
CloseRing(polygon) == Len(polygon) >= 3

\* the step ran drawSafeAreas past its first line on a decoded background
Rendered ==
    canvasContext' /\ backgroundImage' # NoImage /\ backgroundImage'.status = "loaded"

C27_RingWhenClosable ==
    /\ [][\A p \in ClickPoints :
             (handleCanvasMouseMove(p[1], p[2]) /\ Len(currentPolygon) > 0 /\ Rendered) =>
                (CloseRing(polygonToDraw') <=> Len(currentPolygon') >= 3)]_vars
    /\ [][\A p \in ClickPoints :
             (handleCanvasClick(p[1], p[2]) /\ Rendered) =>
                (CloseRing(polygonToDraw') <=> Len(currentPolygon') >= 3)]_vars
    /\ [][((handleCanvasRightClick /\ Len(currentPolygon) > 0) \/ startNewPolygon)
             /\ Rendered =>
                (CloseRing(polygonToDraw') <=> Len(currentPolygon') >= 3)]_vars

(***************************************************************************)
(* C28: the set_safe_areas request of a session carries the camera id the  *)
(* session was opened for, whatever camera selections and camera-list      *)
(* polls happened since.  SpecSelect's session was opened for              *)
(* SessionCamera.                                                          *)
(***************************************************************************)
C28_SaveForSessionCamera ==
    [][saveSafeAreas =>
          \A req \in BagToSet(pendingSaves') :
             CopiesIn(req, pendingSaves')
                 > (IF BagIn(req, pendingSaves) THEN CopiesIn(req, pendingSaves) ELSE 0)
             => req.camera_id = SessionCamera]_vars

(***************************************************************************)
(* C29: the snapshot an open action requests is of the camera its          *)
(* get_safe_areas request was for: when that request completes, the Image  *)
(* created gets the source of the request's camera.                        *)
(***************************************************************************)
C29_SnapshotOfLoadedCamera ==
    [][\A req \in BagToSet(pendingLoads), o \in LoadOutcomes, body \in Bodies :
          (req.purpose = "open" /\ LoadSettles(req, o, body)) =>
             \E img \in BagToSet(pendingImages') :
                img.current /\ img.loadCam = req.cam /\ img.cam = req.cam]_vars

(***************************************************************************)
(* C30: while a session is Ready, safeAreas changes only in an editor      *)
(* action: a closing click, the new-polygon button, a save that closes the *)
(* pending polygon, or a confirmed clear.                                  *)
(***************************************************************************)
C30_OnlyEditorChangesSet ==
    [][(isEditing /\ popupShown /\ backgroundImage.status = "loaded"
            /\ safeAreas' # safeAreas) =>
          \/ \E p \in ClickPoints : handleCanvasClick(p[1], p[2])
          \/ startNewPolygon
          \/ saveSafeAreas
          \/ clearAllPolygons(TRUE)]_vars

(***************************************************************************)
(* C31: the update_safe_areas command posted when a set_safe_areas request *)
(* is answered with success carries the polygon set and the camera id of   *)
(* that request, whatever was drawn, closed or selected while the request  *)
(* was in flight.                                                          *)
(***************************************************************************)
C31_CommandCarriesSavedSet ==
    [][\A req \in BagToSet(pendingSaves) :
          SaveSettles(req, "ok") =>
             \A cmd \in BagToSet(pendingCommands') :
                CopiesIn(cmd, pendingCommands')
                    > (IF BagIn(cmd, pendingCommands)
                       THEN CopiesIn(cmd, pendingCommands) ELSE 0)
                => /\ cmd.value = req.safe_areas
                   /\ cmd.camera_id = req.camera_id]_vars

(***************************************************************************)
(* C32: the close timer of a save closes only the session that issued the  *)
(* save.  In SpecTimer every timer is of a save of the first session, so   *)
(* a timer that fires in the second session leaves it open, editing, its   *)
(* listeners attached.                                                     *)
(***************************************************************************)
C32_TimerClosesOwnSession ==
    [][(InSession(SecondSnapshot) /\ CloseTimerFires) =>
          (isEditing' /\ popupShown' /\ listeners')]_vars

(***************************************************************************)
(* C33: while isEditing is false a primary click, a secondary click and a  *)
(* pointer move handled by the canvas handlers change neither              *)
(* currentPolygon nor safeAreas.                                           *)
(***************************************************************************)
C33_NoInputWhenNotEditing ==
    /\ [][\A p \in MoveClicks :
             (~isEditing /\ handleCanvasClickCall(p[1], p[2])) =>
                UNCHANGED polygonVars]_vars
    /\ [][(~isEditing /\ handleCanvasRightClickCall) => UNCHANGED polygonVars]_vars
    /\ [][\A p \in MoveClicks :
             (~isEditing /\ handleCanvasMouseMoveCall(p[1], p[2])) =>
                UNCHANGED polygonVars]_vars

\* the session was closed with two points drawn and one polygon closed; the
\* secondary click handled last prevented the menu and removed no point
C33_Witness ==
    /\ ~isEditing
    /\ defaultPrevented
    /\ Len(currentPolygon) = 2
    /\ Len(safeAreas) = 1
    /\ safeAreas[1] # StoredTriangle

\* C34: finishCurrentPolygon called with 0, 1 or 2 points in currentPolygon
\* changes neither currentPolygon nor safeAreas, raises no alert and draws
\* nothing.
C34_FinishShortIsNoOp ==
    [][(Len(currentPolygon) < 3 /\ finishCurrentPolygonCall) =>
          /\ UNCHANGED polygonVars
          /\ UNCHANGED polygonToDraw
          /\ alertMsg' = "none"]_vars

\* two points placed and a preview segment on the canvas: finishCurrentPolygon
\* called here returns without closing or redrawing
C34_Witness ==
    /\ isEditing
    /\ Len(currentPolygon) = 2
    /\ safeAreas = <<StoredTriangle>>
    /\ Len(polygonToDraw) = 3
    /\ ENABLED finishCurrentPolygonCall

(***************************************************************************)
(* C35: sendCommand called while isConnected is false posts no /command    *)
(* request and alerts the user; a /command request that fails or is        *)
(* answered with a non-OK status leaves isConnected false.                 *)
(***************************************************************************)
C35_DisconnectedSendsNothing ==
    /\ [][\A req \in BagToSet(pendingSaves) :
             (~isConnected /\ SaveSettles(req, "ok")) =>
                /\ pendingCommands' = pendingCommands
                /\ alertMsg' = "command_disconnected"]_vars
    /\ [][\A req \in BagToSet(pendingCommands) :
             CommandSettles(req, FALSE) => ~isConnected']_vars

\* a save succeeded while the camera was disconnected: the alert is up, the
\* success status is shown and no command is in flight
C35_Witness ==
    /\ ~isConnected
    /\ alertMsg = "command_disconnected"
    /\ saveStatus = "success"
    /\ pendingCommands = EmptyBag
    /\ closeTimers = 1

(***************************************************************************)
(* C36: at most one refresh interval is live, the one streamRefreshInterval*)
(* holds, whatever startStream and stopStream calls were made (page start, *)
(* camera change, camera-list answer, forget, approval, manual refresh);   *)
(* after the stopStream of an empty camera list none is live.              *)
(***************************************************************************)
C36_OneStreamTimer ==
    /\ [](liveIntervals =
             IF streamRefreshInterval = NoInterval THEN {} ELSE {streamRefreshInterval})
    /\ [][(currentCameraId # "camera_000" /\ loadCameraListSettles("ok", << >>)) =>
             liveIntervals' = {} /\ streamRefreshInterval' = NoInterval]_vars

\* the stream stopped by an empty camera list: no interval is live and the
\* src = '' of stopStream was the last assignment
C36_Witness ==
    /\ currentCameraId = "camera_000"
    /\ streamRefreshInterval = NoInterval
    /\ liveIntervals = {}
    /\ streamRequest = "empty"

(***************************************************************************)
(* C37: errorCount is in 0..MAX_ERRORS - 1 between events; a stream error  *)
(* sets isConnected to false and adds one to errorCount, except that the   *)
(* MAX_ERRORS-th in a row sets it to 0 and calls loadCameraList; a frame   *)
(* that loads sets it to 0.                                                *)
(***************************************************************************)
C37_ErrorCounter ==
    /\ [](errorCount \in 0..(MAX_ERRORS - 1))
    /\ [][streamImgOnError =>
             /\ ~isConnected'
             /\ IF errorCount = MAX_ERRORS - 1
                THEN errorCount' = 0 /\ pendingLists'
                ELSE errorCount' = errorCount + 1 /\ UNCHANGED pendingLists]_vars
    /\ [][streamImgOnLoad => errorCount' = 0]_vars

\* MAX_ERRORS - 1 errors in a row: the next one resets the counter
C37_Witness ==
    /\ errorCount = MAX_ERRORS - 1
    /\ ~isConnected
    /\ streamRequest = "frame"
    /\ ~pendingLists

====
